---- MODULE Spec2Model ----
(***************************************************************************)
(* Model of the comic generator's service layer (src/src/services/api.ts): *)
(* the ComicGeneratorAPI credential store and cursor, the rotating-key     *)
(* retry wrapper _callGeminiWithRetry, the screenplay parser               *)
(* parseScreenplayToPanels and processScript.                              *)
(*                                                                         *)
(* Strings are sequences of one-character strings, so that includes,       *)
(* startsWith, trim, split and the regular expressions of the source are   *)
(* computed character by character.  An optional value (a field that may   *)
(* be undefined, a nullable local) is a sequence of length 0 or 1.         *)
(***************************************************************************)
EXTENDS Integers, Sequences, FiniteSets, TLC

VARIABLES
    apiKeys,          \* ComicGeneratorAPI.apiKeys: [gemini, huggingface], both optional
    geminiKeyIndex,   \* ComicGeneratorAPI.geminiKeyIndex, the credential cursor (0-based)
    localStorage,     \* the record stored under 'comic-api-keys', optional
    pc,               \* per invocation in progress: "idle", "calling", "backoff", "returned", "thrown"
    keys,             \* per invocation: the local `keys` (the pool captured at entry)
    maxRetriesPerKey, \* per invocation: the parameter maxRetriesPerKey
    attempt,          \* per invocation: the loop variable `attempt`
    lastError,        \* per invocation: the local `lastError`, optional
    keyIndex,         \* per invocation: the local `keyIndex`, the cursor read by the last attempt
    apiKey,           \* per invocation: the local `apiKey` of the last attempt, optional
    delay,            \* per invocation: the backoff delay being waited (ms), 0 when none
    resolved,         \* per invocation: the value apiCall resolved with, optional
    returned,         \* per invocation: the value the wrapper returned, optional
    thrown,           \* per invocation: the error the wrapper threw, optional
    calls,            \* per invocation: how many times apiCall has been invoked
    waits,            \* per invocation: how many backoff delays have been started
    lastOp,           \* the last operation on the credential store or cursor, and the invocation it is by
    updates,          \* number of setAPIKeys / loadAPIKeys calls so far
    started,          \* number of wrapper invocations started so far
    tried,            \* per invocation: the cursor positions it has invoked apiCall with (history)
    lastTried,        \* the cursor position of the latest attempt of any invocation, optional (history)
    script,           \* Index.script, the text handed to processScript
    pageCount,        \* ComicConfig.pageCount
    panelCount,       \* ComicConfig.panelCount
    stage,            \* position of the script pipeline: "input", "parsed", "processed"
    panelData,        \* the result of parseScreenplayToPanels
    panels,           \* the result of processScript
    imageAI,          \* ComicConfig.imageAI
    textAI,           \* ComicConfig.textAI
    isGenerating,     \* Index.isGenerating
    displayPanels,    \* Index.panels, the panel list ComicDisplay shows
    batch,            \* the running generateComicPanels: position, index i, captured config
    generatedPanels,  \* the local `generatedPanels` of generateComicPanels
    regen,            \* per slot: the regeneratePanel in progress, with the panels it captured
    imagePromise,     \* per slot: the generateImage call that does not go through the wrapper
    toast,            \* the last notification shown
    opsStarted,       \* how many batches, regenerations and story analyses the user has started
    analysis,         \* StoryInput: the handleAnalyzeStory in progress (isAnalyzing)
    editing,          \* ComicDisplay.editingPanel with editData, optional
    generationProgress \* Index.generationProgress: current and total of the last report

apiVars == <<apiKeys, geminiKeyIndex, localStorage, lastOp, updates>>
callVars == <<pc, keys, maxRetriesPerKey, attempt, lastError, keyIndex, apiKey, delay,
              resolved, returned, thrown, calls, waits, started, tried, lastTried>>
scriptVars == <<script, pageCount, panelCount, stage, panelData, panels>>
appVars == <<imageAI, textAI, isGenerating, displayPanels, batch, generatedPanels,
             regen, imagePromise, toast, opsStarted, analysis, editing,
                   generationProgress>>
vars == <<apiKeys, geminiKeyIndex, localStorage, lastOp, updates,
          pc, keys, maxRetriesPerKey, attempt, lastError, keyIndex, apiKey, delay,
          resolved, returned, thrown, calls, waits, started, tried, lastTried,
          script, pageCount, panelCount, stage, panelData, panels,
          imageAI, textAI, isGenerating, displayPanels, batch, generatedPanels,
          regen, imagePromise, toast, opsStarted, analysis, editing,
                   generationProgress>>

----------------------------------------------------------------------------
(* Bounds of the model *)

\* number of distinct credentials, hence the largest pool size K
MaxKeys == 2
\* how many setAPIKeys / loadAPIKeys calls a behaviour contains
MaxUpdates == 2
\* how many wrapper invocations a behaviour starts
MaxInvocations == 2
\* how many wrapper invocations can be in progress at a time
MaxInFlight == 2
\* largest pageCount and panelCount of the configuration
MaxPages == 2
MaxPanelsPerPage == 4
\* largest number of blocks of a script
MaxBlocks == 3
\* largest panelCount of a generation batch
MaxBatch == 2
\* how many generation batches and how many regenerations the user starts
MaxGenerations == 2
MaxRegenerations == 2
MaxAnalyses == 1

----------------------------------------------------------------------------
(* Optional values and strings *)

None == <<>>
Some(x) == <<x>>
IsSome(o) == Len(o) > 0
Val(o) == o[1]

UpperLetters == <<"A","B","C","D","E","F","G","H","I","J","K","L","M","N","O","P","Q","R","S","T","U","V","W","X","Y","Z">>
LowerLetters == <<"a","b","c","d","e","f","g","h","i","j","k","l","m","n","o","p","q","r","s","t","u","v","w","x","y","z">>
DigitChars == <<"0","1","2","3","4","5","6","7","8","9">>

IsUpper(c) == \E i \in 1..Len(UpperLetters) : UpperLetters[i] = c

\* String.prototype.toLowerCase, one character
LowerChar(c) ==
    IF IsUpper(c)
    THEN LowerLetters[CHOOSE i \in 1..Len(UpperLetters) : UpperLetters[i] = c]
    ELSE c

toLowerCase(s) == [i \in 1..Len(s) |-> LowerChar(s[i])]

\* String.prototype.includes
includes(s, sub) ==
    \E i \in 0..(Len(s) - Len(sub)) : SubSeq(s, i + 1, i + Len(sub)) = sub

\* String.prototype.startsWith
startsWith(s, prefix) ==
    Len(s) >= Len(prefix) /\ SubSeq(s, 1, Len(prefix)) = prefix

\* the decimal rendering of a number inside a template literal
RECURSIVE NumberToString(_)
NumberToString(n) ==
    IF n < 10 THEN <<DigitChars[n + 1]>>
    ELSE NumberToString(n \div 10) \o <<DigitChars[(n % 10) + 1]>>

----------------------------------------------------------------------------
(* Errors *)

\* An Error object.  `call` is 0 for an error the wrapper creates itself and
\* otherwise tells which invocation of apiCall rejected with it.
Error(message, call) == [message |-> message, call |-> call]

NoKeysMessage == <<"N","o"," ","G","e","m","i","n","i"," ","A","P","I"," ","k","e","y","s"," ","c","o","n","f","i","g","u","r","e","d",".">>
AllFailedMessage(totalAttempts) ==
    <<"A","l","l"," ">> \o NumberToString(totalAttempts)
        \o <<" ","r","e","t","r","y"," ","a","t","t","e","m","p","t","s"," ","f","a","i","l","e","d",".">>

\* messages apiCall may reject with: two rate-limit flavoured ones and an
\* ordinary one
Msg429 == <<"H","T","T","P"," ","4","2","9">>
MsgRateLimit == <<"R","a","t","e"," ","L","i","m","i","t"," ","h","i","t">>
MsgNoImage == <<"N","o"," ","i","m","a","g","e">>
OpMessages == {Msg429, MsgRateLimit, MsgNoImage}

\* the condition of the backoff without toLowerCase
IsRateLimitCaseSensitive(message) ==
    /\ message # <<>>
    /\ \/ includes(message, <<"4","2","9">>)
       \/ includes(message, <<"r","a","t","e"," ","l","i","m","i","t">>)

\* api.ts:75, the condition of the backoff
IsRateLimit(message) ==
    /\ message # <<>>
    /\ \/ includes(message, <<"4","2","9">>)
       \/ includes(toLowerCase(message), <<"r","a","t","e"," ","l","i","m","i","t">>)

\* Math.random() * 1000: representatives of [0, 1000)
Jitters == {0, 999}

RECURSIVE Pow2(_)
Pow2(n) == IF n = 0 THEN 1 ELSE 2 * Pow2(n - 1)

\* a backoff that doubles with every attempt
BackoffDelayPerAttempt(a, poolSize, jitter) == Pow2(a) * 1000 + jitter

\* api.ts:76
BackoffDelay(a, poolSize, jitter) == Pow2(a \div poolSize) * 1000 + jitter

----------------------------------------------------------------------------
(* The credential store *)

Keys == 1..MaxKeys
Procs == 1..MaxInFlight

\* pools the key list of the UI can hold: sequences of distinct credentials
Pools == UNION {{s \in [1..n -> Keys] : \A i, j \in 1..n : i # j => s[i] # s[j]} : n \in 0..MaxKeys}

HuggingfaceKeys == {<<"h","f">>}

\* the argument of setAPIKeys: each field present or not
KeyRecords ==
    [gemini : {None} \cup {Some(p) : p \in Pools},
     huggingface : {None} \cup {Some(h) : h \in HuggingfaceKeys}]

\* the updates the key form sends while the wrapper is in use: a new pool, or
\* the other provider's key alone
PoolUpdates ==
    {k \in KeyRecords : IsSome(k.gemini) # IsSome(k.huggingface)}

\* what an earlier session may have left in the browser's storage
StoredAtStart == {None, Some([gemini |-> Some(<<1>>), huggingface |-> None])}

\* { ...a, ...b }
Spread(a, b) ==
    [gemini |-> IF IsSome(b.gemini) THEN b.gemini ELSE a.gemini,
     huggingface |-> IF IsSome(b.huggingface) THEN b.huggingface ELSE a.huggingface]

\* this.apiKeys.gemini as the wrapper sees it: missing or empty is "no pool"
PoolOf(k) == IF IsSome(k.gemini) THEN Val(k.gemini) ELSE <<>>
HasPool(k) == IsSome(k.gemini) /\ Len(Val(k.gemini)) > 0

\* the cursor advanced without the modulus
NextIndexNoWrap(index, poolSize) == index + 1

\* api.ts:36
NextIndex(index, poolSize) == (index + 1) % poolSize

\* the cursor left where it is
ResetIndexMissing == geminiKeyIndex

\* api.ts:11 and api.ts:24
ResetIndex == 0

setAPIKeys(k) ==
    /\ updates < MaxUpdates
    /\ apiKeys' = Spread(apiKeys, k)
    /\ geminiKeyIndex' = ResetIndex
    /\ localStorage' = Some(k)
    /\ lastOp' = [op |-> "setAPIKeys", by |-> 0]
    /\ updates' = updates + 1
    /\ UNCHANGED <<callVars, scriptVars>>

loadAPIKeys ==
    /\ updates < MaxUpdates
    /\ IF IsSome(localStorage)
       THEN /\ apiKeys' = Val(localStorage)
            /\ geminiKeyIndex' = ResetIndex
       ELSE UNCHANGED <<apiKeys, geminiKeyIndex>>
    /\ lastOp' = [op |-> "loadAPIKeys", by |-> 0]
    /\ updates' = updates + 1
    /\ UNCHANGED <<localStorage, callVars, scriptVars>>

----------------------------------------------------------------------------
(* The retry wrapper, api.ts:50-83.  An invocation is suspended at two      *)
(* places only: while apiCall runs (pc = "calling") and during a backoff    *)
(* (pc = "backoff"); everything between two suspensions is one step.        *)

\* getNextGeminiKey that leaves the cursor where it is
getNextGeminiKeyNoAdvance(k, index) ==
    IF ~HasPool(k)
    THEN [key |-> None, index |-> index]
    ELSE [key |-> IF index < Len(PoolOf(k)) THEN Some(PoolOf(k)[index + 1]) ELSE None,
          index |-> index]

\* getNextGeminiKey, api.ts:31-38: the credential at the cursor and the
\* advanced cursor; no credential when there is no pool or the cursor is
\* outside it
getNextGeminiKey(k, index) ==
    IF ~HasPool(k)
    THEN [key |-> None, index |-> index]
    ELSE [key |-> IF index < Len(PoolOf(k)) THEN Some(PoolOf(k)[index + 1]) ELSE None,
          index |-> NextIndex(index, Len(PoolOf(k)))]

\* The for loop of api.ts:62-65 entered with `attempt = a`: iterations whose
\* credential is missing `continue`; the loop stops at the first iteration
\* that has a credential (key is set) or at its end (a = totalAttempts).
RECURSIVE LoopFrom(_, _, _, _)
LoopFrom(a, totalAttempts, index, k) ==
    IF a >= totalAttempts
    THEN [attempt |-> a, index |-> index, key |-> None, keyIndex |-> index]
    ELSE LET r == getNextGeminiKey(k, index)
         IN  IF IsSome(r.key)
             THEN [attempt |-> a, index |-> r.index, key |-> r.key, keyIndex |-> index]
             ELSE LoopFrom(a + 1, totalAttempts, r.index, k)

\* a loop bound of one iteration more
TotalAttemptsOneMore(poolSize, retriesPerKey) == poolSize * retriesPerKey + 1

\* api.ts:60
TotalAttempts(poolSize, retriesPerKey) == poolSize * retriesPerKey

\* always a new error of the wrapper, as the earlier version of the wrapper threw
FinalErrorAggregate(le, totalAttempts) == Error(AllFailedMessage(totalAttempts), 0)

\* api.ts:82
FinalError(le, totalAttempts) ==
    IF IsSome(le) THEN Val(le) ELSE Error(AllFailedMessage(totalAttempts), 0)

\* Run the loop of invocation p from iteration a, with lastError = le, up to
\* the next suspension (apiCall invoked) or to the throw of api.ts:82.  The
\* locals attempt, lastError and delay end with the invocation.
Continue(p, a, totalAttempts, le) ==
    LET r == LoopFrom(a, totalAttempts, geminiKeyIndex, apiKeys)
    IN  /\ geminiKeyIndex' = r.index
        /\ delay' = [delay EXCEPT ![p] = 0]
        /\ IF IsSome(r.key)
           THEN /\ attempt' = [attempt EXCEPT ![p] = r.attempt]
                /\ lastError' = [lastError EXCEPT ![p] = le]
                /\ keyIndex' = [keyIndex EXCEPT ![p] = r.keyIndex]
                /\ apiKey' = [apiKey EXCEPT ![p] = r.key]
                /\ calls' = [calls EXCEPT ![p] = @ + 1]
                /\ pc' = [pc EXCEPT ![p] = "calling"]
                /\ lastOp' = [op |-> "attempt", by |-> p]
                /\ tried' = [tried EXCEPT ![p] = @ \cup {r.keyIndex}]
                /\ lastTried' = Some(r.keyIndex)
                /\ UNCHANGED thrown
           ELSE /\ thrown' = [thrown EXCEPT ![p] = Some(FinalError(le, totalAttempts))]
                /\ attempt' = [attempt EXCEPT ![p] = 0]
                /\ lastError' = [lastError EXCEPT ![p] = None]
                /\ pc' = [pc EXCEPT ![p] = "thrown"]
                /\ UNCHANGED <<keyIndex, apiKey, calls, lastOp, tried, lastTried>>

\* the check without `keys.length === 0`
NoKeysConfiguredMissingEmpty(k) == ~IsSome(k.gemini)

\* api.ts:55
NoKeysConfigured(k) == ~IsSome(k.gemini) \/ Len(Val(k.gemini)) = 0

\* a call of _callGeminiWithRetry(apiCall, retriesPerKey), api.ts:54-65
Call(p, retriesPerKey) ==
    /\ pc[p] = "idle"
    /\ started < MaxInvocations
    /\ started' = started + 1
    /\ IF NoKeysConfigured(apiKeys)
       THEN /\ thrown' = [thrown EXCEPT ![p] = Some(Error(NoKeysMessage, 0))]
            /\ pc' = [pc EXCEPT ![p] = "thrown"]
            /\ UNCHANGED <<keys, maxRetriesPerKey, attempt, lastError, keyIndex, apiKey,
                           delay, calls, geminiKeyIndex, lastOp, tried, lastTried>>
       ELSE /\ keys' = [keys EXCEPT ![p] = PoolOf(apiKeys)]
            /\ maxRetriesPerKey' = [maxRetriesPerKey EXCEPT ![p] = retriesPerKey]
            /\ Continue(p, 0, TotalAttempts(Len(PoolOf(apiKeys)), retriesPerKey), None)
    /\ UNCHANGED <<apiKeys, localStorage, updates, resolved, returned, waits, scriptVars>>

\* what the apiCall started by the current attempt resolves with
ApiCallResult(p) == [key |-> Val(apiKey[p]), call |-> calls[p]]

\* apiCall resolves and the loop goes on (a missing `return`)
ResolveKeepsLooping(p) ==
    /\ pc[p] = "calling"
    /\ resolved' = [resolved EXCEPT ![p] = Some(ApiCallResult(p))]
    /\ Continue(p, attempt[p] + 1,
                TotalAttempts(Len(keys[p]), maxRetriesPerKey[p]), lastError[p])
    /\ UNCHANGED <<apiKeys, localStorage, updates, keys, maxRetriesPerKey, returned,
                   waits, started, scriptVars>>

\* apiCall resolves: api.ts:69-70
Resolve(p) ==
    /\ pc[p] = "calling"
    /\ resolved' = [resolved EXCEPT ![p] = Some(ApiCallResult(p))]
    /\ returned' = [returned EXCEPT ![p] = Some(ApiCallResult(p))]
    /\ pc' = [pc EXCEPT ![p] = "returned"]
    /\ attempt' = [attempt EXCEPT ![p] = 0]
    /\ lastError' = [lastError EXCEPT ![p] = None]
    /\ UNCHANGED <<apiVars, keys, maxRetriesPerKey, keyIndex, apiKey, delay,
                   thrown, calls, waits, started, tried, lastTried, scriptVars>>

\* a wrapper that gives up at the first failure and removes the failed
\* credential from the pool
RejectDroppingKey(p, m, jitter) ==
    /\ pc[p] = "calling"
    /\ jitter = 0
    /\ apiKeys' = [apiKeys EXCEPT !.gemini =
                       Some(SelectSeq(PoolOf(apiKeys), LAMBDA k : Some(k) # apiKey[p]))]
    /\ thrown' = [thrown EXCEPT ![p] = Some(Error(m, calls[p]))]
    /\ pc' = [pc EXCEPT ![p] = "thrown"]
    /\ UNCHANGED <<geminiKeyIndex, localStorage, lastOp, updates, keys, maxRetriesPerKey,
                   attempt, lastError, keyIndex, apiKey, delay, resolved, returned, calls,
                   waits, started, tried, lastTried, scriptVars>>

\* a wrapper that does not wait after the failure of its last attempt
RejectNoFinalBackoff(p, m, jitter) ==
    /\ pc[p] = "calling"
    /\ IF IsRateLimit(m)
          /\ attempt[p] + 1 < TotalAttempts(Len(keys[p]), maxRetriesPerKey[p])
       THEN /\ lastError' = [lastError EXCEPT ![p] = Some(Error(m, calls[p]))]
            /\ delay' = [delay EXCEPT ![p] = BackoffDelay(attempt[p], Len(keys[p]), jitter)]
            /\ waits' = [waits EXCEPT ![p] = @ + 1]
            /\ pc' = [pc EXCEPT ![p] = "backoff"]
            /\ UNCHANGED <<attempt, keyIndex, apiKey, calls, thrown, geminiKeyIndex, lastOp,
                           tried, lastTried>>
       ELSE /\ jitter = 0
            /\ Continue(p, attempt[p] + 1,
                        TotalAttempts(Len(keys[p]), maxRetriesPerKey[p]),
                        Some(Error(m, calls[p])))
            /\ UNCHANGED waits
    /\ UNCHANGED <<apiKeys, localStorage, updates, keys, maxRetriesPerKey, resolved,
                   returned, started, scriptVars>>

\* apiCall rejects with an error of message m: api.ts:71-80
Reject(p, m, jitter) ==
    /\ pc[p] = "calling"
    /\ IF IsRateLimit(m)
       THEN /\ lastError' = [lastError EXCEPT ![p] = Some(Error(m, calls[p]))]
            /\ delay' = [delay EXCEPT ![p] = BackoffDelay(attempt[p], Len(keys[p]), jitter)]
            /\ waits' = [waits EXCEPT ![p] = @ + 1]
            /\ pc' = [pc EXCEPT ![p] = "backoff"]
            /\ UNCHANGED <<attempt, keyIndex, apiKey, calls, thrown, geminiKeyIndex, lastOp,
                           tried, lastTried>>
       ELSE /\ jitter = 0
            /\ Continue(p, attempt[p] + 1,
                        TotalAttempts(Len(keys[p]), maxRetriesPerKey[p]),
                        Some(Error(m, calls[p])))
            /\ UNCHANGED waits
    /\ UNCHANGED <<apiKeys, localStorage, updates, keys, maxRetriesPerKey, resolved,
                   returned, started, scriptVars>>

\* api.ts:52, the default of the parameter maxRetriesPerKey; no caller passes another
DefaultMaxRetriesPerKey == 2

\* the caller has received the result or the error: the invocation is over
\* and its locals are gone
FinishSlot(p) ==
    /\ pc[p] \in {"returned", "thrown"}
    /\ pc' = [pc EXCEPT ![p] = "idle"]
    /\ keys' = [keys EXCEPT ![p] = <<>>]
    /\ maxRetriesPerKey' = [maxRetriesPerKey EXCEPT ![p] = 0]
    /\ keyIndex' = [keyIndex EXCEPT ![p] = 0]
    /\ apiKey' = [apiKey EXCEPT ![p] = None]
    /\ resolved' = [resolved EXCEPT ![p] = None]
    /\ returned' = [returned EXCEPT ![p] = None]
    /\ thrown' = [thrown EXCEPT ![p] = None]
    /\ calls' = [calls EXCEPT ![p] = 0]
    /\ waits' = [waits EXCEPT ![p] = 0]
    /\ tried' = [tried EXCEPT ![p] = {}]
    /\ UNCHANGED <<apiVars, attempt, lastError, delay, started, lastTried>>

Finish(p) == FinishSlot(p) /\ UNCHANGED scriptVars

\* the timer of the backoff fires: api.ts:78, then the next iteration
TimerFires(p) ==
    /\ pc[p] = "backoff"
    /\ Continue(p, attempt[p] + 1,
                TotalAttempts(Len(keys[p]), maxRetriesPerKey[p]), lastError[p])
    /\ UNCHANGED <<apiKeys, localStorage, updates, keys, maxRetriesPerKey, resolved,
                   returned, waits, started, scriptVars>>

----------------------------------------------------------------------------
(* The screenplay parser, api.ts:190-237 *)

\* \s of the regular expressions, over the characters scripts are made of
IsSpace(c) == c \in {" ", "\t", "\n"}

\* String.prototype.trim
RECURSIVE trimStart(_)
trimStart(s) ==
    IF s # <<>> /\ IsSpace(Head(s)) THEN trimStart(Tail(s)) ELSE s
RECURSIVE trimEnd(_)
trimEnd(s) ==
    IF s # <<>> /\ IsSpace(s[Len(s)]) THEN trimEnd(SubSeq(s, 1, Len(s) - 1)) ELSE s
trim(s) == trimEnd(trimStart(s))

\* the last position of the run of white space that starts at position i
RECURSIVE SpaceRunEnd(_, _)
SpaceRunEnd(s, i) ==
    IF i <= Len(s) /\ IsSpace(s[i]) THEN SpaceRunEnd(s, i + 1) ELSE i - 1

\* /\n\s*\n/ tried at position i: the position of its last character, 0 when
\* it does not match there.  \s* is greedy, so the closing \n is the last
\* line feed of the white space that follows position i.
SeparatorEnd(s, i) ==
    IF s[i] # "\n" THEN 0
    ELSE LET m == SpaceRunEnd(s, i + 1)
             ends == {j \in (i + 1)..m : s[j] = "\n"}
         IN  IF ends = {} THEN 0 ELSE CHOOSE j \in ends : \A k \in ends : k <= j

\* script.split(/\n\s*\n/), from position `from` on
RECURSIVE SplitBlocksFrom(_, _)
SplitBlocksFrom(s, from) ==
    LET starts == {i \in from..Len(s) : SeparatorEnd(s, i) > 0}
    IN  IF starts = {}
        THEN <<SubSeq(s, from, Len(s))>>
        ELSE LET i == CHOOSE x \in starts : \A y \in starts : x <= y
             IN  <<SubSeq(s, from, i - 1)>> \o SplitBlocksFrom(s, SeparatorEnd(s, i) + 1)

\* Array.prototype.filter
RECURSIVE SelectNonBlank(_)
SelectNonBlank(bs) ==
    IF bs = <<>> THEN <<>>
    ELSE IF Len(trim(Head(bs))) > 0
         THEN <<Head(bs)>> \o SelectNonBlank(Tail(bs))
         ELSE SelectNonBlank(Tail(bs))

\* api.ts:192
Blocks(s) == SelectNonBlank(SplitBlocksFrom(s, 1))

\* block.split('\n')
RECURSIVE SplitLinesFrom(_, _)
SplitLinesFrom(s, from) ==
    LET feeds == {i \in from..Len(s) : s[i] = "\n"}
    IN  IF feeds = {}
        THEN <<SubSeq(s, from, Len(s))>>
        ELSE LET i == CHOOSE x \in feeds : \A y \in feeds : x <= y
             IN  <<SubSeq(s, from, i - 1)>> \o SplitLinesFrom(s, i + 1)

\* api.ts:195
Lines(block) ==
    LET ls == SplitLinesFrom(block, 1) IN [i \in 1..Len(ls) |-> trim(ls[i])]

\* Array.prototype.join
RECURSIVE join(_, _)
join(parts, sep) ==
    IF parts = <<>> THEN <<>>
    ELSE IF Len(parts) = 1 THEN parts[1]
    ELSE parts[1] \o sep \o join(Tail(parts), sep)

\* api.ts:205: /^[A-Z][A-Z\s()']+$/ and not a scene heading
isDialogueCue(str) ==
    /\ Len(str) >= 2
    /\ IsUpper(str[1])
    /\ \A i \in 2..Len(str) : IsUpper(str[i]) \/ IsSpace(str[i]) \/ str[i] \in {"(", ")", "'"}
    /\ ~startsWith(str, <<"I","N","T",".">>)
    /\ ~startsWith(str, <<"E","X","T",".">>)

\* api.ts:208: str.replace(/\(.*\)/, ''): the first "(" that has a ")" after
\* it, up to the last ")" of the line
StripParenthetical(str) ==
    LET closes == {j \in 1..Len(str) : str[j] = ")"}
        opens == {i \in 1..Len(str) : str[i] = "(" /\ \E j \in closes : j > i}
    IN  IF opens = {} THEN str
        ELSE LET a == CHOOSE x \in opens : \A y \in opens : x <= y
                 b == CHOOSE x \in closes : \A y \in closes : y <= x
             IN  SubSeq(str, 1, a - 1) \o SubSeq(str, b + 1, Len(str))

Panel(description, dialogue) == [description |-> description, dialogue |-> dialogue]

\* api.ts:207-212: the panel a character-cue block pushes
CuePanel(ps, lines) ==
    LET character == trim(StripParenthetical(lines[1]))
        dialogueText == trim(join(Tail(lines), <<" ">>))
        lastDescription ==
            IF Len(ps) > 0 THEN ps[Len(ps)].description
            ELSE <<"A"," ","s","h","o","t"," ","o","f"," ">> \o character
                     \o <<" ","s","p","e","a","k","i","n","g",".">>
    IN  Panel(lastDescription, character \o <<":"," ">> \o dialogueText)

\* api.ts:194-216, one iteration of the loop over the blocks
AddBlock(ps, block) ==
    LET lines == Lines(block)
        firstLine == lines[1]
    IN  IF startsWith(firstLine, <<"F","A","D","E">>) THEN ps
        ELSE IF startsWith(firstLine, <<"I","N","T",".">>) \/ startsWith(firstLine, <<"E","X","T",".">>)
        THEN Append(ps, Panel(<<"E","s","t","a","b","l","i","s","h","i","n","g"," ","s","h","o","t",":"," ">> \o block, <<>>))
        ELSE IF isDialogueCue(firstLine)
        THEN Append(ps, CuePanel(ps, lines))
        ELSE Append(ps, Panel(block, <<>>))

RECURSIVE RawPanels(_, _)
RawPanels(ps, blocks) ==
    IF blocks = <<>> THEN ps ELSE RawPanels(AddBlock(ps, Head(blocks)), Tail(blocks))

\* the condition with the `!` of currentDialogue missing
MergeableMissingNot(currentDialogue, nextPanel) ==
    nextPanel.dialogue = <<>> /\ currentDialogue # <<>>

\* api.ts:225, the condition under which the next panel joins the current one
Mergeable(currentDialogue, nextPanel) ==
    nextPanel.dialogue = <<>> /\ currentDialogue = <<>>

\* api.ts:223-233, the merge loop from panel i on
RECURSIVE MergeFrom(_, _, _, _, _)
MergeFrom(ps, i, currentDescription, currentDialogue, merged) ==
    IF i > Len(ps)
    THEN Append(merged, Panel(currentDescription, currentDialogue))
    ELSE IF Mergeable(currentDialogue, ps[i])
         THEN MergeFrom(ps, i + 1, currentDescription \o <<"\n">> \o ps[i].description,
                        currentDialogue, merged)
         ELSE MergeFrom(ps, i + 1, ps[i].description, ps[i].dialogue,
                        Append(merged, Panel(currentDescription, currentDialogue)))

\* the parser without the merge pass
MergePanelsNone(ps) == ps

\* api.ts:218-234
MergePanels(ps) ==
    IF Len(ps) > 0 THEN MergeFrom(ps, 2, ps[1].description, ps[1].dialogue, <<>>) ELSE <<>>

\* api.ts:190-237
parseScreenplayToPanels(s) ==
    LET mergedPanels == MergePanels(RawPanels(<<>>, Blocks(s)))
    IN  IF Len(mergedPanels) > 0 THEN mergedPanels ELSE <<Panel(s, <<>>)>>

----------------------------------------------------------------------------
(* processScript, api.ts:239-259 *)

\* an id made of the panel number only
PanelIdWithoutPage(page, panel) == <<"p","a","n","e","l","-">> \o NumberToString(panel)

\* api.ts:252
PanelId(page, panel) ==
    <<"p","a","g","e","-">> \o NumberToString(page)
        \o <<"-","p","a","n","e","l","-">> \o NumberToString(panel)

\* the last scene repeated instead of the scenes cycled
SceneIndexClamped(i, length) == IF i < length THEN i ELSE length - 1

\* api.ts:250, the scene of panel i (0-based), as a 0-based index
SceneIndex(i, length) == i % length

ComicPanel(i, scene, perPage) ==
    [id |-> PanelId((i \div perPage) + 1, (i % perPage) + 1),
     sceneDescription |-> scene.description,
     dialogue |-> scene.dialogue]

processScript(data, pages, perPage) ==
    IF Len(data) = 0 THEN <<>>
    ELSE [n \in 1..(pages * perPage) |->
            ComicPanel(n - 1, data[SceneIndex(n - 1, Len(data)) + 1], perPage)]

----------------------------------------------------------------------------
(* The script pipeline: the script and the configuration are edited, then   *)
(* handleGenerate hands them to processScript.                              *)

BlockHeading == <<"E","X","T","."," ","A","L","L","E","Y"," ","-"," ","N","I","G","H","T","\n","A"," ","f","i","g","u","r","e"," ","w","a","l","k","s",".">>
BlockCue == <<"N","O","V","A","\n","H","e","l","l","o",".">>
BlockAction == <<"H","e"," ","r","u","n","s",".">>
BlockFade == <<"F","A","D","E"," ","I","N",":">>
BlockCueNote == <<"N","O","V","A"," ","(","C","O","N","T","'","D",")","\n","G","o"," ","o","n",".">>
BlockVocabulary == <<BlockHeading, BlockCue, BlockAction, BlockFade, BlockCueNote>>

BlankLine == <<"\n", "\n">>

\* texts without screenplay structure whose white space is not just one blank
\* line between blocks: blank lines in front, a separator line with a space
\* in it, an indented block and a trailing line feed
TextLeadingBlank == <<"\n","\n","H","e"," ","r","u","n","s",".">>
TextSpacedSeparator == <<"H","e"," ","r","u","n","s",".","\n"," ","\n","s","h","e"," ","h","i","d",".">>
TextIndented == <<" ","r","a","i","n",".","\n","\n","\n"," ","f","o","g",".","\n">>
PlainTexts == {TextLeadingBlank, TextSpacedSeparator, TextIndented}

\* the scripts of at most MaxBlocks blocks of the vocabulary, blank-line
\* separated, and the plain texts
Scripts ==
    UNION {{join([i \in 1..n |-> BlockVocabulary[f[i]]], BlankLine) :
                f \in [1..n -> 1..Len(BlockVocabulary)]} : n \in 1..MaxBlocks}
        \cup PlainTexts

\* ScriptInput: setScript
SetScript(s) ==
    /\ stage = "input"
    /\ script' = s
    /\ UNCHANGED <<pageCount, panelCount, stage, panelData, panels, apiVars, callVars>>

\* ConfigPanel: updateConfig({ pageCount }) and updateConfig({ panelCount })
SetPageCount(n) ==
    /\ stage = "input"
    /\ pageCount' = n
    /\ UNCHANGED <<script, panelCount, stage, panelData, panels, apiVars, callVars>>

SetPanelCount(n) ==
    /\ stage = "input"
    /\ panelCount' = n
    /\ UNCHANGED <<script, pageCount, stage, panelData, panels, apiVars, callVars>>

\* handleGenerate up to the result of processScript
ProcessScript ==
    /\ stage = "input"
    /\ Len(trim(script)) > 0
    /\ panelData' = parseScreenplayToPanels(script)
    /\ panels' = processScript(parseScreenplayToPanels(script), pageCount, panelCount)
    /\ stage' = "processed"
    /\ UNCHANGED <<script, pageCount, panelCount, apiVars, callVars>>

----------------------------------------------------------------------------
(* Image generation: generateImage (api.ts:85-102), the batch                *)
(* generateComicPanels (api.ts:261-281) and Index.handleGenerate.  The code  *)
(* that follows a settled promise runs before any other event is handled:    *)
(* every step of the user, the network and the timers waits until no         *)
(* continuation is pending (Quiescent).                                      *)

ModelGeminiImage == <<"g","e","m","i","n","i","-","2",".","0","-","f","l","a","s","h","-","i","m","a","g","e","-","g","e","n","e","r","a","t","i","o","n">>
ModelGeminiText == <<"g","e","m","i","n","i","-","2",".","5","-","f","l","a","s","h">>
ModelHuggingface == <<"h","u","g","g","i","n","g","f","a","c","e">>
ModelFlux == <<"f","l","u","x">>
ModelOpenai == <<"o","p","e","n","a","i">>

\* the choices of the two model selectors of ConfigPanel that the service
\* tells apart: a Gemini model, HuggingFace, and a keyless model
ImageModels == {ModelGeminiImage, ModelHuggingface, ModelFlux}
TextModels == {ModelOpenai, ModelGeminiText, ModelHuggingface}

\* a string or an array that is set and not empty (the `!!x && x.length > 0`
\* and `!x` tests of the service)
Truthy(o) == IsSome(o) /\ Len(Val(o)) > 0

\* hasRequiredAPIKey that knows the Gemini pool only
hasRequiredAPIKeyGeminiOnly(model, k) ==
    IF startsWith(model, <<"g","e","m","i","n","i">>) THEN Truthy(k.gemini)
    ELSE TRUE

\* api.ts:40-48
hasRequiredAPIKey(model, k) ==
    IF startsWith(model, <<"g","e","m","i","n","i">>) THEN Truthy(k.gemini)
    ELSE IF model = ModelHuggingface THEN Truthy(k.huggingface)
    ELSE TRUE

\* api.ts:293-312 with the style and the prompt booster Index starts with
buildImagePrompt(basePrompt) ==
    <<"(","c","y","b","e","r","p","u","n","k",","," ","n","e","o","n",","," ","f","u","t","u","r","i","s","t","i","c",","," ","g","r","i","t","t","y",","," ","B","l","a","d","e"," ","R","u","n","n","e","r"," ","a","e","s","t","h","e","t","i","c",":","1",".","4",")",","," ">>
        \o basePrompt
        \o <<","," ","c","o","m","i","c"," ","b","o","o","k"," ","p","a","n","e","l",","," ","d","e","t","a","i","l","e","d"," ","a","r","t">>
        \o <<","," ","m","a","s","t","e","r","p","i","e","c","e",","," ","b","e","s","t"," ","q","u","a","l","i","t","y",","," ","u","l","t","r","a"," ","d","e","t","a","i","l","e","d">>
        \o <<" ","-","-","n","o"," ","b","r","i","g","h","t",","," ","c","l","e","a","n">>

\* the image references the three providers return, by their scheme
DataUrl == <<"d","a","t","a",":">>
BlobUrl == <<"b","l","o","b",":">>
HttpsUrl == <<"h","t","t","p","s",":">>

MsgHuggingfaceKeyRequired == <<"H","u","g","g","i","n","g","F","a","c","e"," ","A","P","I"," ","k","e","y"," ","i","s"," ","r","e","q","u","i","r","e","d",".">>
MsgHuggingfaceFailed == <<"H","u","g","g","i","n","g","F","a","c","e"," ","A","P","I"," ","r","e","q","u","e","s","t"," ","f","a","i","l","e","d">>

NoPromise == [state |-> "none", value |-> None, reason |-> None]
PendingPromise == [state |-> "pending", value |-> None, reason |-> None]
Fulfilled(value) == [state |-> "fulfilled", value |-> Some(value), reason |-> None]
Rejected(message) == [state |-> "rejected", value |-> None, reason |-> Some(message)]

\* generateImage(prompt, config) called for slot p with config.imageAI =
\* model, api.ts:85-97, up to its first suspension
StartImage(p, model) ==
    IF startsWith(model, <<"g","e","m","i","n","i">>)
    THEN /\ Call(p, DefaultMaxRetriesPerKey)
         /\ UNCHANGED imagePromise
    ELSE /\ imagePromise[p].state = "none"
         /\ imagePromise' =
               [imagePromise EXCEPT ![p] =
                   IF model = ModelHuggingface
                   THEN IF Truthy(apiKeys.huggingface)
                        THEN PendingPromise
                        ELSE Rejected(MsgHuggingfaceKeyRequired)
                   ELSE Fulfilled(HttpsUrl)]
         /\ UNCHANGED <<apiVars, callVars, scriptVars>>

\* the promise of generateImage for slot p is settled, and how
ImageSettled(p) ==
    pc[p] \in {"returned", "thrown"} \/ imagePromise[p].state \in {"fulfilled", "rejected"}
ImageFulfilled(p) == pc[p] = "returned" \/ imagePromise[p].state = "fulfilled"
ImageUrl(p) == IF pc[p] = "returned" THEN DataUrl ELSE Val(imagePromise[p].value)
ImageErrorMessage(p) ==
    IF pc[p] = "thrown" THEN Val(thrown[p]).message ELSE Val(imagePromise[p].reason)

\* a call made for slot p has not been taken by its caller
ImageInFlight(p) == pc[p] # "idle" \/ imagePromise[p].state # "none"

\* the caller of generateImage takes the outcome: the call is over
ReleaseImage(p) ==
    IF pc[p] \in {"returned", "thrown"}
    THEN /\ Finish(p)
         /\ UNCHANGED imagePromise
    ELSE /\ imagePromise' = [imagePromise EXCEPT ![p] = NoPromise]
         /\ UNCHANGED <<apiVars, callVars, scriptVars>>

\* no continuation is waiting to run
Quiescent ==
    /\ batch.pc # "loop"
    /\ \A p \in Procs : ~ImageSettled(p)

\* the fetch of api.ts:285-290 answers
FetchResolve(p) ==
    /\ Quiescent
    /\ imagePromise[p].state = "pending"
    /\ imagePromise' = [imagePromise EXCEPT ![p] = Fulfilled(BlobUrl)]
    /\ UNCHANGED <<apiVars, callVars, scriptVars, imageAI, textAI, isGenerating,
                   displayPanels, batch, generatedPanels, regen, toast, opsStarted, analysis, editing,
                   generationProgress>>

FetchReject(p) ==
    /\ Quiescent
    /\ imagePromise[p].state = "pending"
    /\ imagePromise' = [imagePromise EXCEPT ![p] = Rejected(MsgHuggingfaceFailed)]
    /\ UNCHANGED <<apiVars, callVars, scriptVars, imageAI, textAI, isGenerating,
                   displayPanels, batch, generatedPanels, regen, toast, opsStarted, analysis, editing,
                   generationProgress>>

\* ConfigPanel: updateConfig({ imageAI }) and updateConfig({ textAI })
SetImageAI(m) ==
    /\ Quiescent
    /\ imageAI' = m
    /\ UNCHANGED <<apiVars, callVars, scriptVars, textAI, isGenerating, displayPanels,
                   batch, generatedPanels, regen, imagePromise, toast, opsStarted, analysis, editing,
                   generationProgress>>

SetTextAI(m) ==
    /\ Quiescent
    /\ ~isGenerating
    /\ textAI' = m
    /\ UNCHANGED <<apiVars, callVars, scriptVars, imageAI, isGenerating, displayPanels,
                   batch, generatedPanels, regen, imagePromise, toast, opsStarted, analysis, editing,
                   generationProgress>>

\* a panel of the panel list: a ComicPanel with its optional fields
DisplayPanel(panel, imageUrl, promptUsed, generating, error) ==
    [id |-> panel.id, sceneDescription |-> panel.sceneDescription, dialogue |-> panel.dialogue,
     imageUrl |-> imageUrl, promptUsed |-> promptUsed, isGenerating |-> generating,
     error |-> error]

\* api.ts:271: { ...panel, imageUrl, promptUsed }
GeneratedPanel(panel, imageUrl) ==
    DisplayPanel(panel, Some(imageUrl), Some(buildImagePrompt(panel.sceneDescription)), None, None)

\* api.ts:273-275: { ...panel, error: `Generation Failed: ${errorMessage}` }
FailedPanel(panel, errorMessage) ==
    DisplayPanel(panel, None, None, None, Some(<<"G","e","n","e","r","a","t","i","o","n"," ","F","a","i","l","e","d",":"," ">> \o errorMessage))

ToastKeyRequired(model) ==
    [kind |-> "error",
     message |-> <<"A","P","I"," ","k","e","y"," ","i","s"," ","r","e","q","u","i","r","e","d"," ","f","o","r"," ">> \o model \o <<"."," ","P","l","e","a","s","e"," ","c","o","n","f","i","g","u","r","e"," ","y","o","u","r"," ","A","P","I"," ","k","e","y",".">>]
\* part_000:84
ToastGenerated(count, pages, model) ==
    [kind |-> "success",
     message |-> <<"G","e","n","e","r","a","t","e","d"," ">> \o NumberToString(count)
                     \o <<" ","c","o","m","i","c"," ","p","a","n","e","l","s"," ","a","c","r","o","s","s"," ">> \o NumberToString(pages)
                     \o <<" ","p","a","g","e","s"," ","u","s","i","n","g"," ">> \o model \o <<"!">>]
NoToast == [kind |-> "none", message |-> <<>>]

\* a report of onProgress as Index keeps it (part_000:74-76); the status text
\* is left out
Progress(current, total) == [current |-> current, total |-> total]

\* api.ts:268, the report before the call for panel i (0-based)
ProgressBefore(i, n) == Progress(i, n)

\* completion reported after every panel
ProgressAfterComplete(i, n) == Progress(n, n)

\* api.ts:277, the report after panel i (0-based) has been pushed
ProgressAfter(i, n) == Progress(i + 1, n)

BatchIdle == [pc |-> "idle", i |-> 0, imageAI |-> <<>>, attempted |-> {}]

\* the slot of the batch's generateImage calls
BatchSlot == 1

\* Index.handleGenerate, part_000:45-69, up to the loop of generateComicPanels;
\* the button is disabled while isGenerating or without a script
\* (ScriptInput: disabled={!script.trim() || isGenerating})
HandleGenerate ==
    /\ Quiescent
    /\ ~isGenerating
    /\ batch.pc = "idle"
    /\ stage = "input"
    /\ Len(trim(script)) > 0
    /\ opsStarted.generate < MaxGenerations
    /\ opsStarted' = [opsStarted EXCEPT !.generate = @ + 1]
    /\ IF ~hasRequiredAPIKey(imageAI, apiKeys)
       THEN /\ toast' = ToastKeyRequired(imageAI)
            /\ UNCHANGED <<scriptVars, isGenerating, batch, generatedPanels,
                           generationProgress>>
       ELSE IF ~hasRequiredAPIKey(textAI, apiKeys)
       THEN /\ toast' = ToastKeyRequired(textAI)
            /\ UNCHANGED <<scriptVars, isGenerating, batch, generatedPanels,
                           generationProgress>>
       ELSE /\ isGenerating' = TRUE
            /\ panelData' = parseScreenplayToPanels(script)
            /\ panels' = processScript(parseScreenplayToPanels(script), pageCount, panelCount)
            /\ stage' = "processed"
            /\ batch' = [pc |-> "loop", i |-> 0, imageAI |-> imageAI, attempted |-> {}]
            /\ generatedPanels' = <<>>
            /\ generationProgress' = Progress(0, pageCount * panelCount)
            /\ UNCHANGED <<script, pageCount, panelCount, toast>>
    /\ UNCHANGED <<apiVars, callVars, imageAI, textAI, displayPanels, regen, imagePromise,
                   analysis, editing>>

\* the call made without `await`: the loop goes on to the next panel at once
ContinueWithoutAwait(b) ==
    [b EXCEPT !.pc = "loop", !.i = @ + 1, !.attempted = @ \cup {b.i}]

\* api.ts:270: `await this.generateImage(...)` suspends the loop at panel i
SuspendAtAwait(b) ==
    [b EXCEPT !.pc = "awaiting", !.attempted = @ \cup {b.i}]

\* api.ts:266-270: the loop goes on to panel i and calls generateImage for it
BatchStartImage ==
    /\ batch.pc = "loop"
    /\ batch.i < Len(panels)
    /\ StartImage(BatchSlot, batch.imageAI)
    /\ batch' = SuspendAtAwait(batch)
    /\ generationProgress' = ProgressBefore(batch.i, Len(panels))
    /\ UNCHANGED <<imageAI, textAI, isGenerating, displayPanels, generatedPanels, regen,
                   toast, opsStarted, analysis, editing>>

\* a result panel added less than once: the failed panel left out
PushedSkippingFailures(generated, panel, ok, url, message) ==
    IF ok THEN Append(generated, GeneratedPanel(panel, url)) ELSE generated

\* api.ts:270-276: generateImage is settled and the panel is pushed, with its
\* image or with its error
Pushed(generated, panel, ok, url, message) ==
    IF ok THEN Append(generated, GeneratedPanel(panel, url))
    ELSE Append(generated, FailedPanel(panel, message))

BatchSettle ==
    /\ batch.pc = "awaiting"
    /\ ImageSettled(BatchSlot)
    /\ generatedPanels' =
           Pushed(generatedPanels, panels[batch.i + 1], ImageFulfilled(BatchSlot),
                  IF ImageFulfilled(BatchSlot) THEN ImageUrl(BatchSlot) ELSE <<>>,
                  IF ImageFulfilled(BatchSlot) THEN <<>> ELSE ImageErrorMessage(BatchSlot))
    /\ batch' = [batch EXCEPT !.pc = "loop", !.i = @ + 1]
    /\ generationProgress' = ProgressAfter(batch.i, Len(panels))
    /\ ReleaseImage(BatchSlot)
    /\ UNCHANGED <<imageAI, textAI, isGenerating, displayPanels, regen, toast, opsStarted, analysis, editing>>

\* api.ts:279-280 and part_000:83-93: the batch returns, the panel list is
\* replaced and isGenerating is cleared
BatchReturn ==
    /\ batch.pc = "loop"
    /\ batch.i >= Len(panels)
    /\ displayPanels' = generatedPanels
    /\ generationProgress' = Progress(Len(panels), Len(panels))
    /\ toast' = ToastGenerated(Len(generatedPanels), pageCount, batch.imageAI)
    /\ isGenerating' = FALSE
    /\ batch' = BatchIdle
    /\ stage' = "input"
    /\ UNCHANGED <<apiVars, callVars, script, pageCount, panelCount, panelData, panels,
                   imageAI, textAI, generatedPanels, regen, imagePromise, opsStarted, analysis, editing>>

----------------------------------------------------------------------------
(* ComicDisplay.regeneratePanel, ComicDisplay.tsx:47-79.  `panels` and       *)
(* `config` are the props of the render in which the button was clicked.     *)

NoRegen == [state |-> "none", panelId |-> <<>>, panels |-> <<>>, imageAI |-> <<>>]

\* the slots of the regenerations
RegenSlots == 2..MaxInFlight

\* ComicDisplay.tsx:152-201: the regenerate button of a panel is shown over
\* its image, when the panel is not generating
RegenerateShown(panel) ==
    /\ panel.isGenerating # Some(TRUE)
    /\ Truthy(panel.imageUrl)

\* panels.find((p) => p.id === panelId), as an index; 0 when there is none
FindPanel(ps, panelId) ==
    IF \E n \in 1..Len(ps) : ps[n].id = panelId
    THEN CHOOSE n \in 1..Len(ps) : ps[n].id = panelId /\ \A m \in 1..(n - 1) : ps[m].id # panelId
    ELSE 0

\* ComicDisplay.tsx:52-56
MarkRegenerating(ps, panelId) ==
    [n \in 1..Len(ps) |->
        IF ps[n].id = panelId
        THEN [ps[n] EXCEPT !.isGenerating = Some(TRUE), !.error = None]
        ELSE ps[n]]

\* ComicDisplay.tsx:63-72
RegenSucceeded(ps, panelId, imageUrl, promptUsed) ==
    [n \in 1..Len(ps) |->
        IF ps[n].id = panelId
        THEN [ps[n] EXCEPT !.isGenerating = Some(FALSE), !.imageUrl = Some(imageUrl),
                           !.promptUsed = Some(promptUsed)]
        ELSE ps[n]]

MsgRegenerationFailed == <<"R","e","g","e","n","e","r","a","t","i","o","n"," ","f","a","i","l","e","d",".">>

\* ComicDisplay.tsx:76
RegenFailed(ps, panelId) ==
    [n \in 1..Len(ps) |->
        IF ps[n].id = panelId
        THEN [ps[n] EXCEPT !.isGenerating = Some(FALSE), !.error = Some(MsgRegenerationFailed)]
        ELSE ps[n]]

\* ComicDisplay.tsx:47-60: the click, up to the await of generateImage; the
\* edit dialog, when open, covers the buttons
RegeneratePanel(p, n) ==
    /\ Quiescent
    /\ editing = None
    /\ regen[p].state = "none"
    /\ opsStarted.regenerate < MaxRegenerations
    /\ opsStarted' = [opsStarted EXCEPT !.regenerate = @ + 1]
    /\ n \in 1..Len(displayPanels)
    /\ RegenerateShown(displayPanels[n])
    /\ FindPanel(displayPanels, displayPanels[n].id) # 0
    /\ displayPanels' = MarkRegenerating(displayPanels, displayPanels[n].id)
    /\ regen' = [regen EXCEPT ![p] = [state |-> "awaiting", panelId |-> displayPanels[n].id,
                                      panels |-> displayPanels, imageAI |-> imageAI]]
    /\ StartImage(p, imageAI)
    /\ UNCHANGED <<imageAI, textAI, isGenerating, batch, generatedPanels, toast, analysis, editing,
                   generationProgress>>

\* ComicDisplay.tsx:60-78: generateImage is settled
RegenSettle(p) ==
    /\ regen[p].state = "awaiting"
    /\ ImageSettled(p)
    /\ displayPanels' =
           LET ps == regen[p].panels
               panelToRegen == ps[FindPanel(ps, regen[p].panelId)]
           IN  IF ImageFulfilled(p)
               THEN RegenSucceeded(ps, regen[p].panelId, ImageUrl(p),
                                   buildImagePrompt(panelToRegen.sceneDescription))
               ELSE RegenFailed(ps, regen[p].panelId)
    /\ regen' = [regen EXCEPT ![p] = NoRegen]
    /\ ReleaseImage(p)
    /\ UNCHANGED <<imageAI, textAI, isGenerating, batch, generatedPanels, toast, opsStarted, analysis, editing,
                   generationProgress>>

----------------------------------------------------------------------------
(* The edit dialog of ComicDisplay, ComicDisplay.tsx:25-45 and 265-296 *)

\* ComicDisplay.tsx:25-31: the click on the edit button of panel n
HandleEditPanel(n) ==
    /\ Quiescent
    /\ editing = None
    /\ n \in 1..Len(displayPanels)
    /\ RegenerateShown(displayPanels[n])
    /\ editing' = Some([id |-> displayPanels[n].id,
                        sceneDescription |-> displayPanels[n].sceneDescription,
                        dialogue |-> displayPanels[n].dialogue])
    /\ UNCHANGED <<apiVars, callVars, scriptVars, imageAI, textAI, isGenerating, displayPanels,
                   batch, generatedPanels, regen, imagePromise, toast, opsStarted, analysis,
                   generationProgress>>

\* ComicDisplay.tsx:274-277: the scene description is typed over
TypeSceneDescription(d) ==
    /\ Quiescent
    /\ editing # None
    /\ Val(editing).sceneDescription # d
    /\ editing' = Some([Val(editing) EXCEPT !.sceneDescription = d])
    /\ UNCHANGED <<apiVars, callVars, scriptVars, imageAI, textAI, isGenerating, displayPanels,
                   batch, generatedPanels, regen, imagePromise, toast, opsStarted, analysis,
                   generationProgress>>

\* ComicDisplay.tsx:36-40
Edited(ps, e) ==
    [n \in 1..Len(ps) |->
        IF ps[n].id = e.id
        THEN [ps[n] EXCEPT !.sceneDescription = e.sceneDescription, !.dialogue = e.dialogue]
        ELSE ps[n]]

\* ComicDisplay.tsx:33-45: Save Changes
SaveEdit ==
    /\ Quiescent
    /\ editing # None
    /\ displayPanels' = Edited(displayPanels, Val(editing))
    /\ editing' = None
    /\ UNCHANGED <<apiVars, callVars, scriptVars, imageAI, textAI, isGenerating,
                   batch, generatedPanels, regen, imagePromise, toast, opsStarted, analysis,
                   generationProgress>>

\* ComicDisplay.tsx:266 and 293: the dialog is closed without saving
CancelEdit ==
    /\ Quiescent
    /\ editing # None
    /\ editing' = None
    /\ UNCHANGED <<apiVars, callVars, scriptVars, imageAI, textAI, isGenerating, displayPanels,
                   batch, generatedPanels, regen, imagePromise, toast, opsStarted, analysis,
                   generationProgress>>

\* what the user types as a scene description
EditedDescription == <<"F","o","g",".">>

----------------------------------------------------------------------------
(* StoryInput.handleAnalyzeStory (ComicDisplay.tsx:698-717) and             *)
(* analyzeStoryToScript (api.ts:150-188)                                    *)

\* the slot of the story analysis' wrapper invocation
AnalysisSlot == MaxInFlight

\* api.ts:152
MsgKeyRequired(model) == <<"A","P","I"," ","k","e","y"," ","r","e","q","u","i","r","e","d"," ","f","o","r"," ">> \o model \o <<".">>
\* api.ts:178
WorksBestText == <<"T","h","i","s"," ","f","e","a","t","u","r","e"," ","w","o","r","k","s"," ","b","e","s","t"," ","w","i","t","h"," ","a"," ","G","e","m","i","n","i"," ","t","e","x","t"," ","m","o","d","e","l",".">>
\* ComicDisplay.tsx:707
ToastAnalyzed == [kind |-> "success", message |-> <<"S","t","o","r","y"," ","a","n","a","l","y","z","e","d"," ","a","n","d"," ","s","c","r","i","p","t"," ","g","e","n","e","r","a","t","e","d"," ","s","u","c","c","e","s","s","f","u","l","l","y","!">>]
ToastError(message) == [kind |-> "error", message |-> message]

\* ComicDisplay.tsx:719-720 and 754: the Analyze Story button is enabled
requiresApiKey(model) == startsWith(model, <<"g","e","m","i","n","i">>) \/ model = ModelOpenai
StoryButtonEnabled ==
    /\ analysis = "none"
    /\ requiresApiKey(textAI) => hasRequiredAPIKey(textAI, apiKeys)

\* scripts a Gemini text model answers with
AnalyzedScripts == {BlockAction}

\* the click on Analyze Story, up to the first suspension
HandleAnalyzeStory ==
    /\ Quiescent
    /\ StoryButtonEnabled
    /\ opsStarted.analyze < MaxAnalyses
    /\ opsStarted' = [opsStarted EXCEPT !.analyze = @ + 1]
    /\ IF ~hasRequiredAPIKey(textAI, apiKeys)
       THEN /\ toast' = ToastError(MsgKeyRequired(textAI))
            /\ UNCHANGED <<apiVars, callVars, scriptVars, analysis>>
       ELSE IF startsWith(textAI, <<"g","e","m","i","n","i">>)
       THEN /\ Call(AnalysisSlot, DefaultMaxRetriesPerKey)
            /\ analysis' = "awaiting"
            /\ UNCHANGED toast
       ELSE /\ script' = WorksBestText
            /\ toast' = ToastAnalyzed
            /\ UNCHANGED <<apiVars, callVars, pageCount, panelCount, stage, panelData, panels,
                           analysis>>
    /\ UNCHANGED <<imageAI, textAI, isGenerating, displayPanels, batch, generatedPanels,
                   regen, imagePromise, editing,
                   generationProgress>>

\* the wrapper invocation of callGeminiTextAPI is settled: the script is
\* replaced by the text s, or the error is shown
AnalysisSettle(s) ==
    /\ analysis = "awaiting"
    /\ pc[AnalysisSlot] \in {"returned", "thrown"}
    /\ IF pc[AnalysisSlot] = "returned"
       THEN /\ script' = s
            /\ toast' = ToastAnalyzed
       ELSE /\ toast' = ToastError(Val(thrown[AnalysisSlot]).message)
            /\ UNCHANGED script
    /\ analysis' = "none"
    /\ FinishSlot(AnalysisSlot)
    /\ UNCHANGED <<pageCount, panelCount, stage, panelData, panels, imageAI, textAI,
                   isGenerating, displayPanels, batch, generatedPanels, regen, imagePromise,
                   opsStarted, editing,
                   generationProgress>>

----------------------------------------------------------------------------
(* The credential store and the wrapper together *)

InitAPI ==
    /\ apiKeys = [gemini |-> None, huggingface |-> None]
    /\ geminiKeyIndex = 0
    /\ localStorage \in StoredAtStart
    /\ lastOp = [op |-> "none", by |-> 0]
    /\ updates = 0
    /\ pc = [p \in Procs |-> "idle"]
    /\ keys = [p \in Procs |-> <<>>]
    /\ maxRetriesPerKey = [p \in Procs |-> 0]
    /\ attempt = [p \in Procs |-> 0]
    /\ lastError = [p \in Procs |-> None]
    /\ keyIndex = [p \in Procs |-> 0]
    /\ apiKey = [p \in Procs |-> None]
    /\ delay = [p \in Procs |-> 0]
    /\ resolved = [p \in Procs |-> None]
    /\ returned = [p \in Procs |-> None]
    /\ thrown = [p \in Procs |-> None]
    /\ calls = [p \in Procs |-> 0]
    /\ waits = [p \in Procs |-> 0]
    /\ started = 0
    /\ tried = [p \in Procs |-> {}]
    /\ lastTried = None

\* Index: the initial script and configuration
DefaultPageCount == 1
DefaultPanelCount == 4

InitScriptIdle ==
    /\ script = <<>>
    /\ pageCount = DefaultPageCount
    /\ panelCount = DefaultPanelCount
    /\ stage = "input"
    /\ panelData = <<>>
    /\ panels = <<>>

\* Index: the initial configuration, flags and panel list
InitAppIdle ==
    /\ imageAI = ModelGeminiImage
    /\ textAI = ModelOpenai
    /\ isGenerating = FALSE
    /\ displayPanels = <<>>
    /\ batch = BatchIdle
    /\ generatedPanels = <<>>
    /\ regen = [p \in Procs |-> NoRegen]
    /\ imagePromise = [p \in Procs |-> NoPromise]
    /\ toast = NoToast
    /\ opsStarted = [generate |-> 0, regenerate |-> 0, analyze |-> 0]
    /\ analysis = "none"
    /\ editing = None
    /\ generationProgress = Progress(0, 0)

Init == InitAPI /\ InitScriptIdle /\ InitAppIdle

\* Wrapper invocations follow one another, each with the default
\* maxRetriesPerKey; the credential store is updated at any time, also while
\* an invocation is suspended.
Next ==
    \/ \E k \in PoolUpdates : setAPIKeys(k) /\ UNCHANGED appVars
    \/ loadAPIKeys /\ UNCHANGED appVars
    \/ Call(1, DefaultMaxRetriesPerKey) /\ UNCHANGED appVars
    \/ \E p \in Procs : Finish(p) /\ UNCHANGED appVars
    \/ \E p \in Procs : Resolve(p) /\ UNCHANGED appVars
    \/ \E p \in Procs, m \in OpMessages, j \in Jitters : Reject(p, m, j) /\ UNCHANGED appVars
    \/ \E p \in Procs : TimerFires(p) /\ UNCHANGED appVars

Spec == Init /\ [][Next]_vars

\* The script pipeline alone: the credential store stays as constructed.
InitScript ==
    /\ InitScriptIdle
    /\ InitAPI
    /\ InitAppIdle
    /\ localStorage = None

NextScript ==
    \/ \E s \in Scripts : SetScript(s) /\ UNCHANGED appVars
    \/ \E n \in 1..MaxPages : SetPageCount(n) /\ UNCHANGED appVars
    \/ \E n \in 1..MaxPanelsPerPage : SetPanelCount(n) /\ UNCHANGED appVars
    \/ ProcessScript /\ UNCHANGED appVars

SpecScript == InitScript /\ [][NextScript]_vars

\* The application: the user edits the configuration and the credentials,
\* starts generation batches and regenerates panels, while the providers
\* answer.  The script is the one action paragraph or the heading and cue.
AppScripts == {BlockAction, join(<<BlockHeading, BlockCue>>, BlankLine)}

\* the credentials the key form saves first: a pool of all the credentials
\* and the other provider's key
AppKeys == [gemini |-> Some([i \in 1..MaxKeys |-> i]), huggingface |-> Some(<<"h","f">>)]

\* the later updates of the key form (handleDeleteGeminiKey until the list
\* is empty, handleHuggingfaceChange with the field cleared)
AppKeyUpdates ==
    {[gemini |-> Some(<<>>), huggingface |-> Some(<<"h","f">>)],
     [gemini |-> Some([i \in 1..MaxKeys |-> i]), huggingface |-> Some(<<>>)]}

\* the script is written, the models and the panel count are chosen and the
\* credentials are saved before anything is generated
InitApp ==
    /\ apiKeys = AppKeys
    /\ geminiKeyIndex = 0
    /\ localStorage = Some(AppKeys)
    /\ lastOp = [op |-> "setAPIKeys", by |-> 0]
    /\ updates = 1
    /\ pc = [p \in Procs |-> "idle"]
    /\ keys = [p \in Procs |-> <<>>]
    /\ maxRetriesPerKey = [p \in Procs |-> 0]
    /\ attempt = [p \in Procs |-> 0]
    /\ lastError = [p \in Procs |-> None]
    /\ keyIndex = [p \in Procs |-> 0]
    /\ apiKey = [p \in Procs |-> None]
    /\ delay = [p \in Procs |-> 0]
    /\ resolved = [p \in Procs |-> None]
    /\ returned = [p \in Procs |-> None]
    /\ thrown = [p \in Procs |-> None]
    /\ calls = [p \in Procs |-> 0]
    /\ waits = [p \in Procs |-> 0]
    /\ started = 0
    /\ tried = [p \in Procs |-> {}]
    /\ lastTried = None
    /\ script \in AppScripts
    /\ pageCount = DefaultPageCount
    /\ panelCount \in 1..MaxBatch
    /\ stage = "input"
    /\ panelData = <<>>
    /\ panels = <<>>
    /\ imageAI \in ImageModels
    /\ textAI = ModelOpenai
    /\ isGenerating = FALSE
    /\ displayPanels = <<>>
    /\ batch = BatchIdle
    /\ generatedPanels = <<>>
    /\ regen = [p \in Procs |-> NoRegen]
    /\ imagePromise = [p \in Procs |-> NoPromise]
    /\ toast = NoToast
    /\ opsStarted = [generate |-> 0, regenerate |-> 0, analyze |-> 0]
    /\ analysis = "none"
    /\ editing = None
    /\ generationProgress = Progress(0, 0)

NextApp ==
    \/ \E k \in AppKeyUpdates : Quiescent /\ setAPIKeys(k) /\ UNCHANGED appVars
    \/ HandleGenerate
    \/ BatchStartImage
    \/ BatchSettle
    \/ BatchReturn
    \/ \E p \in RegenSlots, n \in 1..MaxBatch : RegeneratePanel(p, n)
    \/ \E p \in RegenSlots : RegenSettle(p)
    \/ \E p \in Procs : Quiescent /\ Resolve(p) /\ UNCHANGED appVars
    \/ \E p \in Procs, m \in {Msg429, MsgNoImage} :
            Quiescent /\ Reject(p, m, 0) /\ UNCHANGED appVars
    \/ \E p \in Procs : Quiescent /\ TimerFires(p) /\ UNCHANGED appVars
    \/ \E p \in Procs : FetchResolve(p)
    \/ \E p \in Procs : FetchReject(p)

SpecApp == InitApp /\ [][NextApp]_vars

\* The panel display after a batch: two panels generated with Hugging Face
\* are shown, the image model is the same or has been changed to Gemini, and
\* the user regenerates and edits panels while the providers answer.
DisplayedPanels ==
    LET ps == processScript(parseScreenplayToPanels(BlockAction), DefaultPageCount, MaxBatch)
    IN  [n \in 1..Len(ps) |-> GeneratedPanel(ps[n], BlobUrl)]

InitDisplay ==
    /\ apiKeys = AppKeys
    /\ geminiKeyIndex = 0
    /\ localStorage = Some(AppKeys)
    /\ lastOp = [op |-> "setAPIKeys", by |-> 0]
    /\ updates = 1
    /\ pc = [p \in Procs |-> "idle"]
    /\ keys = [p \in Procs |-> <<>>]
    /\ maxRetriesPerKey = [p \in Procs |-> 0]
    /\ attempt = [p \in Procs |-> 0]
    /\ lastError = [p \in Procs |-> None]
    /\ keyIndex = [p \in Procs |-> 0]
    /\ apiKey = [p \in Procs |-> None]
    /\ delay = [p \in Procs |-> 0]
    /\ resolved = [p \in Procs |-> None]
    /\ returned = [p \in Procs |-> None]
    /\ thrown = [p \in Procs |-> None]
    /\ calls = [p \in Procs |-> 0]
    /\ waits = [p \in Procs |-> 0]
    /\ started = 0
    /\ tried = [p \in Procs |-> {}]
    /\ lastTried = None
    /\ script = BlockAction
    /\ pageCount = DefaultPageCount
    /\ panelCount = MaxBatch
    /\ stage = "input"
    /\ panelData = parseScreenplayToPanels(BlockAction)
    /\ panels = processScript(parseScreenplayToPanels(BlockAction), DefaultPageCount, MaxBatch)
    /\ imageAI \in {ModelHuggingface, ModelGeminiImage}
    /\ textAI = ModelOpenai
    /\ isGenerating = FALSE
    /\ displayPanels = DisplayedPanels
    /\ batch = BatchIdle
    /\ generatedPanels = DisplayedPanels
    /\ regen = [p \in Procs |-> NoRegen]
    /\ imagePromise = [p \in Procs |-> NoPromise]
    /\ toast = ToastGenerated(Len(DisplayedPanels), DefaultPageCount, ModelHuggingface)
    /\ opsStarted = [generate |-> 1, regenerate |-> 0, analyze |-> 0]
    /\ analysis = "none"
    /\ editing = None
    /\ generationProgress = Progress(Len(DisplayedPanels), Len(DisplayedPanels))

NextDisplay ==
    \/ \E p \in Procs, n \in 1..MaxBatch : RegeneratePanel(p, n)
    \/ \E p \in Procs : RegenSettle(p)
    \/ \E n \in 1..MaxBatch : HandleEditPanel(n)
    \/ TypeSceneDescription(EditedDescription)
    \/ SaveEdit
    \/ CancelEdit
    \/ \E p \in Procs : Quiescent /\ Resolve(p) /\ UNCHANGED appVars
    \/ \E p \in Procs, m \in {Msg429, MsgNoImage} :
            Quiescent /\ Reject(p, m, 0) /\ UNCHANGED appVars
    \/ \E p \in Procs : Quiescent /\ TimerFires(p) /\ UNCHANGED appVars
    \/ \E p \in Procs : FetchResolve(p)
    \/ \E p \in Procs : FetchReject(p)

SpecDisplay == InitDisplay /\ [][NextDisplay]_vars

\* The configuration: from the start of the page the user saves credentials,
\* selects models, writes the script, starts batches and story analyses.
\* Models are selected between operations.
Idle ==
    /\ batch.pc = "idle"
    /\ analysis = "none"
    /\ \A p \in Procs : ~ImageInFlight(p)

\* credentials the user saves in the configuration
ConfigKeyUpdates == AppKeyUpdates \cup {AppKeys}

\* the page right after construction, no credential saved, the script typed
\* and the panel count chosen
InitConfig ==
    /\ InitAPI
    /\ InitAppIdle
    /\ script \in AppScripts
    /\ pageCount = DefaultPageCount
    /\ panelCount \in 1..MaxBatch
    /\ stage = "input"
    /\ panelData = <<>>
    /\ panels = <<>>

NextConfig ==
    \/ Idle /\ loadAPIKeys /\ UNCHANGED appVars
    \/ \E k \in ConfigKeyUpdates : Quiescent /\ setAPIKeys(k) /\ UNCHANGED appVars
    \/ \E m \in ImageModels : Idle /\ SetImageAI(m)
    \/ \E m \in TextModels : Idle /\ SetTextAI(m)
    \/ HandleGenerate
    \/ BatchStartImage
    \/ BatchSettle
    \/ BatchReturn
    \/ HandleAnalyzeStory
    \/ \E s \in AnalyzedScripts : AnalysisSettle(s)
    \/ \E p \in Procs : Quiescent /\ Resolve(p) /\ UNCHANGED appVars
    \/ \E p \in Procs : Quiescent /\ Reject(p, Msg429, 0) /\ UNCHANGED appVars
    \/ \E p \in Procs : Quiescent /\ TimerFires(p) /\ UNCHANGED appVars
    \/ \E p \in Procs : FetchResolve(p)
    \/ \E p \in Procs : FetchReject(p)

SpecConfig == InitConfig /\ [][NextConfig]_vars

----------------------------------------------------------------------------
(* Properties of the retry wrapper, checked under Spec *)

\* C1: a wrapper invocation entered with a pool of size K and
\* maxRetriesPerKey R invokes apiCall at most K * R times, whatever the
\* outcomes of the invocations.
C1_AtMostPoolTimesRetries ==
    \A p \in Procs : calls[p] <= Len(keys[p]) * maxRetriesPerKey[p]

\* every one of the K * R = 4 attempts was made and failed
C1_Witness ==
    \E p \in Procs :
        /\ pc[p] = "thrown"
        /\ Len(keys[p]) = 2 /\ maxRetriesPerKey[p] = 2
        /\ calls[p] = 4

\* C2: once apiCall has resolved, the wrapper has returned exactly the value
\* it resolved with, that invocation of apiCall is the last one the wrapper
\* made, and no backoff delay is pending.
C2_FirstSuccessReturned ==
    \A p \in Procs :
        IsSome(resolved[p]) =>
            /\ pc[p] = "returned"
            /\ returned[p] = resolved[p]
            /\ Val(resolved[p]).call = calls[p]
            /\ delay[p] = 0

\* a success that follows failures and a backoff
C2_Witness ==
    \E p \in Procs :
        /\ pc[p] = "returned"
        /\ IsSome(resolved[p])
        /\ calls[p] >= 3
        /\ waits[p] >= 1

\* C3 as stated: when every attempt has failed, the wrapper throws an
\* aggregate error of its own whose message reports the total attempt count.
C3_Original ==
    \A p \in Procs :
        (pc[p] = "thrown" /\ calls[p] > 0) =>
            /\ Val(thrown[p]).call = 0
            /\ includes(Val(thrown[p]).message,
                        NumberToString(Len(keys[p]) * maxRetriesPerKey[p]))

\* C3 amended: when every attempt has failed, the wrapper throws the error
\* of the last invocation of apiCall, unchanged: an error apiCall rejected
\* with, of the invocation made last, and no error of the wrapper's own.
C3_LastFailureRethrown ==
    \A p \in Procs :
        (pc[p] = "thrown" /\ calls[p] > 0) =>
            /\ Val(thrown[p]).call = calls[p]
            /\ Val(thrown[p]).message \in OpMessages
            /\ Val(thrown[p]).message # AllFailedMessage(Len(keys[p]) * maxRetriesPerKey[p])

\* all K * R attempts of a two-key pool failed, the last one without a rate limit
C3_Witness ==
    \E p \in Procs :
        /\ pc[p] = "thrown"
        /\ Len(keys[p]) = 2
        /\ calls[p] = Len(keys[p]) * maxRetriesPerKey[p]
        /\ Val(thrown[p]).message = MsgNoImage

\* C4: an attempt uses the credential at the cursor and leaves the cursor
\* exactly one further, modulo the pool size; the outcome of the attempt
\* (pending, resolved or rejected) does not move it.
C4_CursorAdvancesByOne ==
    \A p \in Procs :
        (lastOp = [op |-> "attempt", by |-> p] /\ pc[p] # "idle") =>
            LET pool == PoolOf(apiKeys)
            IN  /\ keyIndex[p] < Len(pool)
                /\ apiKey[p] = Some(pool[keyIndex[p] + 1])
                /\ geminiKeyIndex = (keyIndex[p] + 1) % Len(pool)

\* an attempt with the last credential of a two-key pool has wrapped the
\* cursor to 0, and has since been rejected
C4_Witness ==
    \E p \in Procs :
        /\ lastOp = [op |-> "attempt", by |-> p]
        /\ pc[p] = "backoff"
        /\ Len(PoolOf(apiKeys)) = 2
        /\ keyIndex[p] = 1
        /\ geminiKeyIndex = 0

\* C5: setAPIKeys, and loadAPIKeys when a record is stored, leave the cursor
\* at 0, and the attempt that follows a replacement uses the first credential
\* of the pool it finds.
C5Step ==
    /\ (updates' = updates + 1 /\ (lastOp'.op = "setAPIKeys" \/ IsSome(localStorage)))
           => geminiKeyIndex' = 0
    /\ \A p \in Procs :
           ( /\ calls'[p] = calls[p] + 1
             /\ \/ lastOp.op = "setAPIKeys"
                \/ lastOp.op = "loadAPIKeys" /\ IsSome(localStorage) )
           => /\ keyIndex'[p] = 0
              /\ apiKey'[p] = Some(Head(PoolOf(apiKeys)))
C5_ReplacementResetsCursor == [][C5Step]_vars

\* the second attempt of an invocation entered with the pool <<1, 2>> finds
\* the pool replaced by <<2, 1>> and the cursor back at 0
C5_Witness ==
    \E p \in Procs :
        /\ pc[p] = "calling"
        /\ lastOp = [op |-> "attempt", by |-> p]
        /\ attempt[p] = 1
        /\ keys[p] = <<1, 2>>
        /\ PoolOf(apiKeys) = <<2, 1>>
        /\ keyIndex[p] = 0
        /\ apiKey[p] = Some(2)

\* C6: a wrapper invocation that finds the pool absent or empty throws the
\* configuration error in the step that starts it: no apiCall, no backoff,
\* the cursor unchanged.
PoolAbsentOrEmpty == apiKeys.gemini = None \/ Val(apiKeys.gemini) = <<>>
C6Step ==
    \A p \in Procs :
        (pc[p] = "idle" /\ pc'[p] # "idle" /\ PoolAbsentOrEmpty) =>
            /\ pc'[p] = "thrown"
            /\ thrown'[p] = Some(Error(NoKeysMessage, 0))
            /\ calls'[p] = 0
            /\ waits'[p] = 0
            /\ delay'[p] = 0
            /\ geminiKeyIndex' = geminiKeyIndex
C6_EmptyPoolFailsAtOnce == [][C6Step]_vars

\* after an invocation that made attempts, the pool was emptied and the next
\* invocation failed on it
C6_Witness ==
    \E p \in Procs :
        /\ started = 2
        /\ lastOp.op = "setAPIKeys"
        /\ apiKeys.gemini = Some(<<>>)
        /\ pc[p] = "thrown"
        /\ thrown[p] = Some(Error(NoKeysMessage, 0))
        /\ calls[p] = 0

\* C7: a rejection whose message is rate-limit flavoured starts a backoff of
\* more than 0 ms and no attempt is made in that step; any other rejection
\* starts no backoff, and the next attempt (or the final throw) is part of
\* the same step.
RateLimitFlavoured == {Msg429, MsgRateLimit}
RejectedIn(p) ==
    /\ pc[p] = "calling"
    /\ pc'[p] # "returned"
    /\ (pc'[p] # "calling" \/ calls'[p] # calls[p])
RejectionMessage(p) ==
    IF pc'[p] = "thrown" THEN Val(thrown'[p]).message ELSE Val(lastError'[p]).message
C7Step ==
    \A p \in Procs :
        RejectedIn(p) =>
            IF RejectionMessage(p) \in RateLimitFlavoured
            THEN /\ pc'[p] = "backoff"
                 /\ delay'[p] > 0
                 /\ waits'[p] = waits[p] + 1
                 /\ calls'[p] = calls[p]
            ELSE /\ pc'[p] # "backoff"
                 /\ delay'[p] = 0
                 /\ waits'[p] = waits[p]
                 /\ (calls'[p] = calls[p] + 1 \/ pc'[p] = "thrown")
C7_BackoffOnlyOnRateLimit == [][C7Step]_vars

\* of three rejections two started no backoff, and the third, a "Rate Limit"
\* one, is being waited for
C7_Witness ==
    \E p \in Procs :
        /\ pc[p] = "backoff"
        /\ calls[p] = 3
        /\ waits[p] = 1
        /\ Val(lastError[p]).message = MsgRateLimit
        /\ delay[p] >= 1000

----------------------------------------------------------------------------
(* Properties of the parser and of processScript, checked under SpecScript *)

EndToEndScript ==
    <<"E","X","T","."," ","A","L","L","E","Y"," ","-"," ","N","I","G","H","T","\n","A"," ","f","i","g","u","r","e"," ","w","a","l","k","s",".","\n","\n","N","O","V","A","\n","H","e","l","l","o",".">>

\* C8: the script "EXT. ALLEY - NIGHT\nA figure walks.\n\nNOVA\nHello." with
\* pageCount = 1 and panelCount = 1 yields exactly one panel whose description
\* includes "A figure walks." and whose dialogue is "NOVA: Hello.".
C8_EndToEnd ==
    (stage = "processed" /\ script = EndToEndScript /\ pageCount = 1 /\ panelCount = 1) =>
        /\ Len(panels) = 1
        /\ includes(panels[1].sceneDescription, <<"A"," ","f","i","g","u","r","e"," ","w","a","l","k","s",".">>)
        /\ panels[1].dialogue = <<"N","O","V","A",":"," ","H","e","l","l","o",".">>

\* the blocks of a script the parser takes for character cues (api.ts:198-207)
CueBlocks(bs) ==
    {i \in 1..Len(bs) :
        LET firstLine == Lines(bs[i])[1]
        IN  /\ ~startsWith(firstLine, <<"F","A","D","E">>)
            /\ isDialogueCue(firstLine)}

RemoveAt(seq, i) == SubSeq(seq, 1, i - 1) \o SubSeq(seq, i + 1, Len(seq))

\* C9: a character-cue block never starts a new panel: the parser's output
\* for a script has no more panels than its output for the same script
\* without that block.
C9_CueStartsNoPanel ==
    stage = "processed" =>
        \A i \in CueBlocks(Blocks(script)) :
            Len(panelData)
                <= Len(parseScreenplayToPanels(join(RemoveAt(Blocks(script), i), BlankLine)))

\* C10: processScript yields pageCount * panelCount panels; panel i (0-based)
\* has the description and dialogue of parsed panel i mod L and the id of
\* page floor(i / panelCount) + 1, panel (i mod panelCount) + 1.
C10_PanelsCycleThroughScenes ==
    stage = "processed" =>
        LET L == Len(panelData)
            N == pageCount * panelCount
        IN  /\ L >= 1
            /\ Len(panels) = N
            /\ \A i \in 0..(N - 1) :
                /\ panels[i + 1].sceneDescription = panelData[(i % L) + 1].description
                /\ panels[i + 1].dialogue = panelData[(i % L) + 1].dialogue
                /\ panels[i + 1].id =
                       <<"p","a","g","e","-">> \o NumberToString((i \div panelCount) + 1)
                           \o <<"-","p","a","n","e","l","-">>
                           \o NumberToString((i % panelCount) + 1)

\* eight panels on two pages cycle through three parsed panels, the middle
\* one with dialogue
C10_Witness ==
    /\ stage = "processed"
    /\ Len(panelData) = 3
    /\ panelData[2].dialogue # <<>>
    /\ pageCount = 2 /\ panelCount = 4
    /\ Len(panels) = 8
    /\ panels[8].dialogue = panelData[2].dialogue

\* the blocks of a text are all plain: none is a FADE line, a scene heading
\* or a character cue (api.ts:198-207)
Unstructured(s) ==
    \A i \in 1..Len(Blocks(s)) :
        LET firstLine == Lines(Blocks(s)[i])[1]
        IN  /\ ~startsWith(firstLine, <<"F","A","D","E">>)
            /\ ~startsWith(firstLine, <<"I","N","T",".">>)
            /\ ~startsWith(firstLine, <<"E","X","T",".">>)
            /\ ~isDialogueCue(firstLine)

\* C11 as stated: for a text without screenplay structure the parser returns
\* exactly one panel, whose description is the full input text and whose
\* dialogue is empty.
C11_Original ==
    (stage = "processed" /\ Unstructured(script)) =>
        panelData = <<[description |-> script, dialogue |-> <<>>]>>

\* C11 amended: for a text without screenplay structure the parser returns
\* exactly one panel with empty dialogue, whose description is the non-blank
\* blocks of the text in order, joined by single line feeds; it is the full
\* input text when the text has no blank-line separator in it.
C11_OnePanelOfJoinedBlocks ==
    (stage = "processed" /\ Unstructured(script)) =>
        /\ Len(panelData) = 1
        /\ panelData[1].dialogue = <<>>
        /\ panelData[1].description = join(Blocks(script), <<"\n">>)
        /\ (\A i \in 1..Len(script) : SeparatorEnd(script, i) = 0)
               => panelData[1].description = script

\* two plain blocks on either side of a separator line that holds a space
C11_Witness ==
    /\ stage = "processed"
    /\ script = TextSpacedSeparator
    /\ Unstructured(script)
    /\ Len(Blocks(script)) = 2
    /\ panelData = <<[description |-> <<"H","e"," ","r","u","n","s",".","\n","s","h","e"," ","h","i","d",".">>,
                      dialogue |-> <<>>]>>

----------------------------------------------------------------------------
(* Properties of the generation batch and of the panel list, checked under  *)
(* SpecApp                                                                  *)

\* C12: a batch over n panels pushes one result panel per input panel, in
\* input order and with the input's id, description and dialogue; a panel
\* whose generation failed carries the error and no image, and generateImage
\* has been called for every panel up to the current one, after failures
\* too; when the batch is over there are exactly n result panels.
C12_BatchKeepsEveryPanel ==
    /\ batch.pc = "idle" => Len(generatedPanels) = Len(panels)
    /\ batch.pc # "idle" => Len(generatedPanels) = batch.i /\ batch.i <= Len(panels)
    /\ batch.pc = "loop" => batch.attempted = 0..(batch.i - 1)
    /\ batch.pc = "awaiting" => batch.attempted = 0..batch.i
    /\ \A j \in 1..Len(generatedPanels) :
        /\ generatedPanels[j].id = panels[j].id
        /\ generatedPanels[j].sceneDescription = panels[j].sceneDescription
        /\ generatedPanels[j].dialogue = panels[j].dialogue
        /\ \/ IsSome(generatedPanels[j].imageUrl) /\ generatedPanels[j].error = None
           \/ /\ generatedPanels[j].imageUrl = None
              /\ IsSome(generatedPanels[j].error)
              /\ startsWith(Val(generatedPanels[j].error), <<"G","e","n","e","r","a","t","i","o","n"," ","F","a","i","l","e","d",":"," ">>)

\* a batch of two panels is over: the first panel failed, the second has its
\* image, and the panel list shows both
C12_Witness ==
    /\ batch.pc = "idle"
    /\ Len(panels) = 2
    /\ Len(generatedPanels) = 2
    /\ IsSome(generatedPanels[1].error)
    /\ IsSome(generatedPanels[2].imageUrl)
    /\ displayPanels = generatedPanels

\* C13: no panel of the panel list has an image and an error at the same
\* time, whatever batches and regenerations have run.
C13_ImageXorError ==
    \A n \in 1..Len(displayPanels) :
        ~(IsSome(displayPanels[n].imageUrl) /\ IsSome(displayPanels[n].error))

\* C14: the batch has at most one generateImage call in flight: while the
\* loop runs (between two calls) every call it has started is completed and
\* its result pushed; while it waits, exactly the call for the current panel
\* i is outstanding, so the call for panel i + 1 starts only after the one
\* for panel i is over.
C14_OneCallAtATime ==
    /\ batch.pc \in {"idle", "loop"} => ~ImageInFlight(BatchSlot)
    /\ batch.pc = "loop" => Cardinality(batch.attempted) = Len(generatedPanels)
    /\ batch.pc = "awaiting" =>
        /\ ImageInFlight(BatchSlot)
        /\ Cardinality(batch.attempted) = Len(generatedPanels) + 1
        /\ batch.attempted \ {batch.i} = 0..(Len(generatedPanels) - 1)

\* the call for the second panel is in flight, after the first panel's call
\* failed and was recorded
C14_Witness ==
    /\ batch.pc = "awaiting"
    /\ batch.i = 1
    /\ Len(generatedPanels) = 1
    /\ IsSome(generatedPanels[1].error)
    /\ (pc[BatchSlot] = "calling" \/ imagePromise[BatchSlot].state = "pending")

\* the operations in flight that read and write the panel list: the batch
\* (0) and the regenerations (their slots)
OpsInFlight ==
    (IF batch.pc # "idle" THEN {0} ELSE {})
        \cup {p \in RegenSlots : regen[p].state # "none"}

\* the wrapper invocations that are suspended; each reads and advances the
\* credential cursor when it resumes
SuspendedInvocations == {p \in Procs : pc[p] \in {"calling", "backoff"}}

\* C15: no two operations are in flight at the same time on the same shared
\* state: at most one operation that writes the panel list, and at most one
\* wrapper invocation that uses the credential pool and cursor.
C15_OneOperationAtATime ==
    /\ Cardinality(OpsInFlight) <= 1
    /\ Cardinality(SuspendedInvocations) <= 1

----------------------------------------------------------------------------
(* Properties of the credential store and of the wrapper, checked under     *)
(* Spec                                                                     *)

\* C16: after a setAPIKeys call the record stored under 'comic-api-keys' is
\* the credential set held in memory, so that a loadAPIKeys would leave
\* getAPIKeys() unchanged.
C16_StorageMirrorsMemory ==
    lastOp.op = "setAPIKeys" =>
        /\ localStorage = Some(apiKeys)
        /\ Val(localStorage) = apiKeys

\* no wrapper invocation is in progress
NoInvocation == \A p \in Procs : pc[p] = "idle"

\* C18: when an invocation starts after the previous one is over, and the
\* pool has not been replaced or reloaded since the latest attempt, its first
\* attempt uses the credential that follows, modulo the pool size, the one
\* of that latest attempt.
C18_CursorPersists ==
    [][ (started' = started + 1 /\ NoInvocation /\ lastOp.op = "attempt")
        => \E p \in Procs :
              /\ pc'[p] = "calling"
              /\ attempt'[p] = 0
              /\ keyIndex'[p] = (Val(lastTried) + 1) % Len(PoolOf(apiKeys))
              /\ apiKey'[p] = Some(PoolOf(apiKeys)[keyIndex'[p] + 1]) ]_vars

\* the second invocation makes its first attempt with the second credential,
\* and the pool has been set once
C18_Witness ==
    /\ started = 2
    /\ updates = 1
    /\ pc[1] = "calling"
    /\ calls[1] = 1
    /\ keyIndex[1] = 1
    /\ lastTried = Some(1)

----------------------------------------------------------------------------
(* Properties of the configuration, checked under SpecConfig *)

\* the credential the provider of `model` needs is not there
MissingCredential(model) ==
    \/ /\ Len(model) >= 6
       /\ SubSeq(model, 1, 6) = <<"g","e","m","i","n","i">>
       /\ (apiKeys.gemini = None \/ apiKeys.gemini = Some(<<>>))
    \/ /\ model = ModelHuggingface
       /\ (apiKeys.huggingface = None \/ apiKeys.huggingface = Some(<<>>))

\* a click on Generate, a click on Analyze Story
GenerateStarts == opsStarted'.generate = opsStarted.generate + 1
AnalysisStarts == opsStarted'.analyze = opsStarted.analyze + 1

\* C17: a generation batch started while the image or the text provider
\* misses its credential, and a story analysis started while the text
\* provider misses its credential, show an error and do nothing else: no
\* wrapper invocation and no request starts, and the panel list and the
\* isGenerating flag stay as they were.
C17_MissingKeyStopsBeforeNetwork ==
    [][ (\/ GenerateStarts /\ (MissingCredential(imageAI) \/ MissingCredential(textAI))
         \/ AnalysisStarts /\ MissingCredential(textAI))
        => /\ toast'.kind = "error"
           /\ started' = started
           /\ pc' = pc
           /\ imagePromise' = imagePromise
           /\ displayPanels' = displayPanels
           /\ isGenerating' = isGenerating
           /\ batch' = batch
           /\ analysis' = analysis ]_vars

\* a second batch was refused, after the pool was emptied, with the panels of
\* the first batch on display
C17_Witness ==
    /\ opsStarted.generate = 2
    /\ toast = ToastKeyRequired(ModelGeminiImage)
    /\ displayPanels # <<>>
    /\ ~isGenerating
    /\ \A p \in Procs : pc[p] = "idle"

----------------------------------------------------------------------------
(* Properties of the backoff, checked under Spec *)

\* C20: the delay of a backoff after the failure of attempt a (0-based), in
\* an invocation that entered with a pool of K credentials, is at least
\* 2^floor(a/K) * 1000 ms and less than 1000 ms more.
C20_BackoffPerRotation ==
    \A p \in Procs :
        pc[p] = "backoff" =>
            LET K == Len(keys[p])
                rotations == CHOOSE q \in 0..attempt[p] :
                                 q * K <= attempt[p] /\ attempt[p] < (q + 1) * K
            IN  /\ (2 ^ rotations) * 1000 <= delay[p]
                /\ delay[p] < (2 ^ rotations) * 1000 + 1000

\* a backoff after the last attempt of the second rotation of a pool of two:
\* same base as the attempt before it, twice the base of the first rotation
C20_Witness ==
    /\ pc[1] = "backoff"
    /\ Len(keys[1]) = 2
    /\ attempt[1] = 3
    /\ delay[1] = 2999

----------------------------------------------------------------------------
(* Properties of overlapping invocations, checked under SpecConfig *)

\* C19: an invocation of the wrapper that ends with a throw, having entered
\* with a pool, has invoked apiCall with every credential of that pool.
C19_FailureTriedEveryKey ==
    \A p \in Procs :
        (pc[p] = "thrown" /\ keys[p] # <<>>)
            => \A i \in 0..(Len(keys[p]) - 1) : i \in tried[p]

----------------------------------------------------------------------------
(* Properties of the wrapper's effects, checked under Spec *)

\* C21: a step of a wrapper invocation leaves the in-memory credentials and
\* the stored record as they are, and an invocation that starts with a pool
\* starts afresh: no error, no backoff, no call and no tried credential of
\* an earlier invocation is left, its pool is the pool of that moment, and
\* its first call is its only call so far.
C21_NoSideEffects ==
    [][ /\ (updates' = updates) => (apiKeys' = apiKeys /\ localStorage' = localStorage)
        /\ (started' = started + 1 /\ HasPool(apiKeys)) =>
               \E p \in Procs :
                   /\ pc[p] = "idle"
                   /\ pc'[p] = "calling"
                   /\ keys'[p] = PoolOf(apiKeys)
                   /\ maxRetriesPerKey'[p] = DefaultMaxRetriesPerKey
                   /\ attempt'[p] = 0
                   /\ lastError'[p] = None
                   /\ delay'[p] = 0
                   /\ waits'[p] = 0
                   /\ calls'[p] = 1
                   /\ keyIndex'[p] = geminiKeyIndex
                   /\ tried'[p] = {geminiKeyIndex} ]_vars

\* the second invocation is in its first backoff, with the base delay of the
\* first rotation, after the first invocation has used the pool of two
C21_Witness ==
    /\ started = 2
    /\ updates = 1
    /\ pc[1] = "backoff"
    /\ Len(keys[1]) = 2
    /\ attempt[1] = 0
    /\ keyIndex[1] = 1
    /\ delay[1] = 1000
    /\ apiKeys.gemini = Some(keys[1])

----------------------------------------------------------------------------
(* Properties of the pacing of the batch, checked under SpecApp *)

\* C22: within a batch, the call of generateImage for a panel after the
\* first is issued only out of a pacing delay that followed the completion of
\* the call for the panel before it: the loop never goes from that
\* completion straight to the next call.
C22_PacingBetweenCalls ==
    [][ (batch.pc # "awaiting" /\ batch'.pc = "awaiting" /\ batch'.i >= 1)
        => batch.pc = "pacing" ]_vars

----------------------------------------------------------------------------
(* Properties of the parser's merge pass, checked under SpecScript *)

\* the length of the longest prefix of ps whose panels all lack dialogue
RECURSIVE SilentPrefix(_)
SilentPrefix(ps) ==
    IF ps = <<>> \/ ps[1].dialogue # <<>> THEN 0 ELSE 1 + SilentPrefix(Tail(ps))

\* the reference: every maximal run of panels without dialogue becomes one
\* panel, every panel with dialogue is kept as it is
RECURSIVE MergedRuns(_)
MergedRuns(ps) ==
    IF ps = <<>> THEN <<>>
    ELSE IF ps[1].dialogue # <<>> THEN <<ps[1]>> \o MergedRuns(Tail(ps))
    ELSE LET n == SilentPrefix(ps)
         IN  <<[description |-> join([i \in 1..n |-> ps[i].description], <<"\n">>),
                dialogue |-> <<>>]>>
                 \o MergedRuns(SubSeq(ps, n + 1, Len(ps)))

\* the panels of the script before the merge pass
PreMerge == RawPanels(<<>>, Blocks(script))

\* C23: when the blocks of the script give at least one panel, the parser's
\* result is the reference merge of the pre-merge panels; no two adjacent
\* panels of it both lack dialogue; and a scene heading followed by an
\* action paragraph gives one panel.
C23_MergeEqualsReference ==
    (stage = "processed" /\ PreMerge # <<>>) =>
        /\ panelData = MergedRuns(PreMerge)
        /\ \A i \in 1..(Len(panelData) - 1) :
               panelData[i].dialogue # <<>> \/ panelData[i + 1].dialogue # <<>>
        /\ script = join(<<BlockHeading, BlockAction>>, BlankLine) => Len(panelData) = 1

\* heading, action and cue: the first two are merged, the cue panel is kept
C23_Witness ==
    /\ stage = "processed"
    /\ script = join(<<BlockHeading, BlockAction, BlockCue>>, BlankLine)
    /\ Len(PreMerge) = 3
    /\ Len(panelData) = 2
    /\ panelData[2].dialogue # <<>>

----------------------------------------------------------------------------
(* Properties of the framing lines, checked under SpecScript *)

FadeWord == <<"F","A","D","E">>

\* the block is a framing line
IsFraming(block) == startsWith(trim(block), FadeWord)

\* the blocks of the script that are not framing lines
KeptBlocks == SelectSeq(Blocks(script), LAMBDA b : ~IsFraming(b))

\* no panel of the parser's result carries a framing line
NoFadeInPanels ==
    \A i \in 1..Len(panelData) :
        /\ ~includes(panelData[i].description, FadeWord)
        /\ ~includes(panelData[i].dialogue, FadeWord)

\* the result is the result for the script without its framing lines
FramingRemovesNothingElse ==
    KeptBlocks # <<>> => panelData = parseScreenplayToPanels(join(KeptBlocks, BlankLine))

\* C24: for every script, one of framing lines only included, no panel of
\* the parser's result carries a FADE framing line in its description or
\* dialogue, and the result is the one of the script without its framing
\* lines.
C24_FramingDiscarded ==
    stage = "processed" => (NoFadeInPanels /\ FramingRemovesNothingElse)

----------------------------------------------------------------------------
(* Properties of the panel display, checked under SpecDisplay *)

\* no regeneration is pending
NoRegeneration == \A p \in Procs : regen[p].state = "none"

\* C25: once every regeneration that was started has completed, no panel of
\* the list is marked isGenerating.
C25_NoPanelLeftGenerating ==
    NoRegeneration =>
        \A n \in 1..Len(displayPanels) : displayPanels[n].isGenerating # Some(TRUE)

\* the fields of the panels other than the one of id panelId
Others(ps, panelId) == [n \in {m \in 1..Len(ps) : ps[m].id # panelId} |-> ps[n]]

\* C26: the completion of a regeneration changes the panel it was started
\* for and no other: every other panel of the list has, after the step, the
\* fields it had before it.
C26_CompletionChangesOnePanel ==
    [][ \A p \in Procs :
            (regen[p].state = "awaiting" /\ regen'[p].state = "none")
                => Others(displayPanels', regen[p].panelId)
                       = Others(displayPanels, regen[p].panelId) ]_vars

----------------------------------------------------------------------------
(* Properties of the cursor, checked under Spec *)

\* C27: the cursor is never negative, and it is less than the size of the
\* pool whenever the pool is not empty: the credential an attempt reads at
\* the cursor is defined.
C27_CursorInRange ==
    /\ geminiKeyIndex >= 0
    /\ HasPool(apiKeys) => geminiKeyIndex < Len(Val(apiKeys.gemini))
    /\ \A p \in Procs : pc[p] \in {"calling", "backoff"} => apiKey[p] # None

\* the pool of two was replaced by a pool of one while an invocation, whose
\* attempt had moved the cursor to the second position, is suspended
C27_Witness ==
    /\ pc[1] = "calling"
    /\ Len(keys[1]) = 2
    /\ keyIndex[1] = 0
    /\ calls[1] = 1
    /\ lastOp.op = "setAPIKeys"
    /\ Len(PoolOf(apiKeys)) = 1
    /\ geminiKeyIndex = 0

----------------------------------------------------------------------------
(* Properties of the panel ids, checked under SpecScript *)

\* C28: the ids of the panels processScript returns are pairwise distinct,
\* and each is "page-P-panel-Q" with P in 1..pageCount and Q in
\* 1..panelCount: an id selects exactly one panel.
C28_PanelIdsDistinct ==
    stage = "processed" =>
        /\ \A i, j \in 1..Len(panels) : i # j => panels[i].id # panels[j].id
        /\ \A i \in 1..Len(panels) :
               /\ \E P \in 1..pageCount, Q \in 1..panelCount :
                      panels[i].id = <<"p","a","g","e","-">> \o NumberToString(P)
                                         \o <<"-","p","a","n","e","l","-">> \o NumberToString(Q)
               /\ Cardinality({n \in 1..Len(panels) : panels[n].id = panels[i].id}) = 1

\* the largest configuration: every page has every panel number
C28_Witness ==
    /\ stage = "processed"
    /\ pageCount = MaxPages
    /\ panelCount = MaxPanelsPerPage
    /\ Len(panels) = MaxPages * MaxPanelsPerPage
    /\ panels[1].id # panels[MaxPanelsPerPage + 1].id

----------------------------------------------------------------------------
(* Properties of the progress reports, checked under SpecApp *)

\* the panel has a recorded result: an image or an error
Recorded(panel) == Truthy(panel.imageUrl) \/ Truthy(panel.error)

\* C29: while generateComicPanels runs over the n panels of processScript,
\* every report has total n and a current between 0 and n that is not less
\* than the one before; the report left when it returns is (n, n); and
\* current is n only when each of the n panels has been pushed with its
\* image or its error.
C29_ProgressReports ==
    [][ batch.pc # "idle" =>
            LET n == Len(panels)
            IN  /\ generationProgress'.total = n
                /\ generationProgress'.current >= 0
                /\ generationProgress'.current <= n
                /\ generationProgress'.current >= generationProgress.current
                /\ batch'.pc = "idle" => generationProgress' = [current |-> n, total |-> n]
                /\ generationProgress'.current = n =>
                       /\ n > 0
                       /\ Len(generatedPanels') = n
                       /\ \A k \in 1..n : Recorded(generatedPanels'[k]) ]_vars

\* a batch of two panels has returned, the first panel with an error and the
\* second with an image, and the report is (2, 2)
C29_Witness ==
    /\ batch.pc = "idle"
    /\ ~isGenerating
    /\ generationProgress = [current |-> 2, total |-> 2]
    /\ Len(displayPanels) = 2
    /\ Truthy(displayPanels[1].error)
    /\ Truthy(displayPanels[2].imageUrl)

----------------------------------------------------------------------------
(* Properties of the backoff after a failure, checked under Spec *)

\* C30: a rate-limit failure of apiCall, the one of the last attempt
\* included, puts the invocation into a backoff of at least a second: the
\* next attempt and the throw follow a failed call at once only when the
\* failure is not a rate-limit error, and the wrapper throws a rate-limit
\* error only out of a backoff.
C30_BackoffAfterEveryRateLimit ==
    [][ \A p \in Procs :
            /\ (pc[p] = "calling" /\ pc'[p] = "backoff") =>
                   /\ IsRateLimit(Val(lastError'[p]).message)
                   /\ delay'[p] >= 1000
                   /\ waits'[p] = waits[p] + 1
            /\ (pc[p] = "calling" /\ pc'[p] = "calling" /\ calls'[p] = calls[p] + 1) =>
                   ~IsRateLimit(Val(lastError'[p]).message)
            /\ (pc[p] = "calling" /\ pc'[p] = "thrown") =>
                   ~IsRateLimit(Val(thrown'[p]).message)
            /\ (pc[p] # "thrown" /\ pc'[p] = "thrown"
                    /\ IsRateLimit(Val(thrown'[p]).message)) => pc[p] = "backoff" ]_vars

\* the wrapper waits after the rate-limit failure of its last attempt
C30_Witness ==
    /\ pc[1] = "backoff"
    /\ Len(keys[1]) = 2
    /\ attempt[1] + 1 = Len(keys[1]) * maxRetriesPerKey[1]
    /\ IsRateLimit(Val(lastError[1]).message)
    /\ delay[1] >= 2000

====
